---- MODULE Spec2Model ----
(***************************************************************************)
(* Model of drawings/services/csv_importer.py: import_assets_from_csv,     *)
(* with the record store (Asset, AssetType, ImportBatch) it writes to and   *)
(* the transaction it runs in.                                              *)
(*                                                                         *)
(* Encoding.  A Python str that the importer strips, lower-cases or parses  *)
(* (a CSV cell, an asset id, a type name) is a tuple of one-character       *)
(* strings, so that strip(), lower() and float() are computed and not       *)
(* looked up.  Column names, role names and file names are only compared    *)
(* for equality by the importer and are plain TLA+ strings.                 *)
(***************************************************************************)
EXTENDS Integers, Sequences, FiniteSets, TLC

(***************************************************************************)
(* Bounds of the model.                                                     *)
(***************************************************************************)
\* number of import_assets_from_csv calls in one behaviour
MaxImports == 2
\* number of data rows read over all calls of one behaviour
MaxRowsTotal == 4

(***************************************************************************)
(* Python values.                                                           *)
(***************************************************************************)
\* None as a dict key (DictReader's restkey) and as a column of a mapping
NoneKey == "<None>"
\* None as a cell value (DictReader's restval); no str equals it
NoneCell == <<"<None>">>
\* the empty str
EmptyStr == << >>

Range(f) == {f[i] : i \in DOMAIN f}

\* a list of cells (the value DictReader stores under restkey); no str equals it
RECURSIVE ListCell(_)
ListCell(cells) ==
    IF cells = << >> THEN <<"<list>">>
    ELSE ListCell(SubSeq(cells, 1, Len(cells) - 1)) \o <<"<item>">> \o cells[Len(cells)]

\* bool(value) of a value found in a DictReader row: None, '' are false
Truthy(v) ==
    /\ v # NoneCell
    /\ v # EmptyStr
    /\ v # <<"<list>">>

\* characters str.strip() removes
Whitespace == {" ", "\t", "\n", "\r"}

\* str.strip()
RECURSIVE LStrip(_)
LStrip(s) ==
    IF s # << >> /\ s[1] \in Whitespace THEN LStrip(Tail(s)) ELSE s

RECURSIVE RStrip(_)
RStrip(s) ==
    IF s # << >> /\ s[Len(s)] \in Whitespace
    THEN RStrip(SubSeq(s, 1, Len(s) - 1)) ELSE s

Strip(s) == RStrip(LStrip(s))

\* str.lower(), on the ASCII letters
LowerChar(c) ==
    CASE c = "A" -> "a"
      [] c = "B" -> "b"
      [] c = "C" -> "c"
      [] c = "D" -> "d"
      [] c = "E" -> "e"
      [] c = "F" -> "f"
      [] c = "G" -> "g"
      [] c = "H" -> "h"
      [] c = "I" -> "i"
      [] c = "J" -> "j"
      [] c = "K" -> "k"
      [] c = "L" -> "l"
      [] c = "M" -> "m"
      [] c = "N" -> "n"
      [] c = "O" -> "o"
      [] c = "P" -> "p"
      [] c = "Q" -> "q"
      [] c = "R" -> "r"
      [] c = "S" -> "s"
      [] c = "T" -> "t"
      [] c = "U" -> "u"
      [] c = "V" -> "v"
      [] c = "W" -> "w"
      [] c = "X" -> "x"
      [] c = "Y" -> "y"
      [] c = "Z" -> "z"
      [] OTHER -> c

Lower(s) == [i \in 1..Len(s) |-> LowerChar(s[i])]

(***************************************************************************)
(* float(str).  A float is [kind, m, e]: kind "fin" is the number           *)
(* m / 10^e with the trailing zeros of the fraction removed, kind "inf" is  *)
(* m * infinity (m = 1 or -1), kind "nan" is NaN.  ValueError is the value   *)
(* FloatValueError.  The grammar is [sign] (digits [ "." digits ] | "."      *)
(* digits | inf | infinity | nan), letters in any case; exponents and        *)
(* digit-group underscores are left out and no cell of the model uses them.  *)
(***************************************************************************)
Digits == {"0", "1", "2", "3", "4", "5", "6", "7", "8", "9"}

DigitVal(c) ==
    CASE c = "0" -> 0
      [] c = "1" -> 1
      [] c = "2" -> 2
      [] c = "3" -> 3
      [] c = "4" -> 4
      [] c = "5" -> 5
      [] c = "6" -> 6
      [] c = "7" -> 7
      [] c = "8" -> 8
      [] c = "9" -> 9

RECURSIVE DigitsVal(_)
DigitsVal(s) ==
    IF s = << >> THEN 0
    ELSE DigitsVal(SubSeq(s, 1, Len(s) - 1)) * 10 + DigitVal(s[Len(s)])

FloatValueError == [kind |-> "ValueError", m |-> 0, e |-> 0]

RECURSIVE Normalize(_, _)
Normalize(m, e) ==
    IF m = 0 THEN [kind |-> "fin", m |-> 0, e |-> 0]
    ELSE IF e > 0 /\ m % 10 = 0 THEN Normalize(m \div 10, e - 1)
    ELSE [kind |-> "fin", m |-> m, e |-> e]

float(str) ==
    LET s == Strip(str)
        signed == s # << >> /\ s[1] \in {"+", "-"}
        sgn == IF signed /\ s[1] = "-" THEN -1 ELSE 1
        body == IF signed THEN Tail(s) ELSE s
        word == Lower(body)
        dots == {i \in 1..Len(body) : body[i] = "."}
        digs == {i \in 1..Len(body) : body[i] \in Digits}
    IN  IF word \in {<<"i", "n", "f">>, <<"i", "n", "f", "i", "n", "i", "t", "y">>}
        THEN [kind |-> "inf", m |-> sgn, e |-> 0]
        ELSE IF word = <<"n", "a", "n">>
        THEN [kind |-> "nan", m |-> 0, e |-> 0]
        ELSE IF \/ digs = {}
                \/ Cardinality(dots) > 1
                \/ dots \cup digs # 1..Len(body)
        THEN FloatValueError
        ELSE LET dot == IF dots = {} THEN Len(body) + 1 ELSE CHOOSE i \in dots : TRUE
                 whole == SubSeq(body, 1, dot - 1)
                 frac == SubSeq(body, dot + 1, Len(body))
                 mag == Normalize(DigitsVal(whole \o frac), Len(frac))
             IN  [mag EXCEPT !.m = sgn * mag.m]

\* the float is a finite number
IsFinite(v) == v.kind = "fin"

\* a float field holding None
NoneFloat == [kind |-> "None", m |-> 0, e |-> 0]

(***************************************************************************)
(* csv.DictReader.  A file is the sequence of its lines as csv.reader        *)
(* yields them, each line a sequence of cells; a blank line is << >>.        *)
(***************************************************************************)
\* DictReader.fieldnames: the first line, None for a file with no line
NoFieldnames == <<NoneKey>>

FieldnamesOf(lines) ==
    IF lines = << >> THEN NoFieldnames ELSE lines[1]

\* the lines DictReader.__next__ yields: blank lines are skipped
DataLines(lines) ==
    IF lines = << >> THEN << >>
    ELSE SelectSeq(Tail(lines), LAMBDA l : l # << >>)

\* csv.reader raises csv.Error ("new-line character seen in unquoted field")
\* on a line that holds a carriage return followed by another character
ReaderError(cells) ==
    \E i \in 1..Len(cells) :
        \E j \in 1..(Len(cells[i]) - 1) : cells[i][j] = "\r"

\* DictReader.__next__: dict(zip(fieldnames, row)), the cells beyond the
\* header under restkey None, the columns beyond the cells as restval None
DictRow(fieldnames, cells) ==
    LET lf == Len(fieldnames)
        lr == Len(cells)
        keys == Range(fieldnames) \cup (IF lr > lf THEN {NoneKey} ELSE {})
        last(k) == CHOOSE i \in 1..lf :
                      /\ fieldnames[i] = k
                      /\ \A j \in 1..lf : fieldnames[j] = k => j <= i
    IN  [k \in keys |->
            IF k = NoneKey /\ lr > lf /\ NoneKey \notin Range(fieldnames)
            THEN ListCell(SubSeq(cells, lf + 1, lr))
            ELSE IF last(k) <= lr THEN cells[last(k)] ELSE NoneCell]

\* dict.get(key, default)
Get(d, key, default) == IF key \in DOMAIN d THEN d[key] ELSE default



(***************************************************************************)
(* The record store.  Each table is the set of its rows; pk is the primary  *)
(* key the store assigns.  A transaction holds the rows it has written      *)
(* (whole new versions, by pk) until it commits; inside the transaction a   *)
(* query sees the committed rows overlaid with the transaction's own.       *)
(***************************************************************************)
Procs == {1}

EmptyStore == [assets |-> {}, types |-> {}, batches |-> {}]

Pks(rows) == {r.pk : r \in rows}

OverlayRows(base, written) ==
    {r \in base : r.pk \notin Pks(written)} \cup written

\* what a query inside the transaction with write set w sees
Overlay(base, w) ==
    [assets  |-> OverlayRows(base.assets, w.assets),
     types   |-> OverlayRows(base.types, w.types),
     batches |-> OverlayRows(base.batches, w.batches)]

\* AssetType.objects.create(name=...): the display attributes take the
\* model's defaults
DefaultIconShape == "circle"
DefaultColor == "#FF0000"
DefaultSize == 20

NewAssetType(pk, name) ==
    [pk |-> pk, name |-> name, icon_shape |-> DefaultIconShape,
     color |-> DefaultColor, size |-> DefaultSize]

\* the highest pk first: one row of a non-empty set
MaxPk(rows) == CHOOSE r \in rows : \A q \in rows : q.pk <= r.pk

(***************************************************************************)
(* import_assets_from_csv: the names of the source are kept.                *)
(***************************************************************************)
DEFAULT_MAPPING ==
    [asset_id |-> "asset_id", asset_type |-> "asset_type",
     x |-> "x", y |-> "y", name |-> "name"]

\* the header check with the y role left out
required_roles_without_y == <<"asset_id", "asset_type", "x">>

required_roles == <<"asset_id", "asset_type", "x", "y">>

\* {**DEFAULT_MAPPING, **(column_mapping or {})}
MergeMapping(column_mapping) ==
    [r \in DOMAIN DEFAULT_MAPPING \cup DOMAIN column_mapping |->
        IF r \in DOMAIN column_mapping THEN column_mapping[r] ELSE DEFAULT_MAPPING[r]]

\* `not col`: '' and None are false
Falsy(col) == col \in {"", NoneKey}

\* the header check: the roles appended to `missing`, in order
MissingRoles(mapping, fieldnames) ==
    SelectSeq(required_roles,
              LAMBDA role : \/ Falsy(Get(mapping, role, ""))
                            \/ Get(mapping, role, "") \notin Range(fieldnames))

\* `col not in fieldnames` raises TypeError when fieldnames is None: it is
\* evaluated for the first required role whose column is not falsy
HeaderCheckTypeError(mapping, fieldnames) ==
    /\ fieldnames = NoFieldnames
    /\ \E i \in 1..Len(required_roles) : ~Falsy(Get(mapping, required_roles[i], ""))

\* {at.name.lower(): at for at in AssetType.objects.all()}: of the types
\* that share a lower-cased name the last one iterated stays
asset_types_cache_of(types) ==
    LET keys == {Lower(t.name) : t \in types}
    IN  {<<k, MaxPk({t \in types : Lower(t.name) = k}).pk>> : k \in keys}

CacheKeys(cache) == {kv[1] : kv \in cache}
CacheGet(cache, key) == (CHOOSE kv \in cache : kv[1] = key)[2]

\* filename or getattr(csv_file, 'name', 'unknown.csv')
batch_filename_of(filename, file_name) ==
    IF ~Falsy(filename) THEN filename
    ELSE IF file_name # NoneKey THEN file_name
    ELSE "unknown.csv"

\* lines 115-119: the columns of the row that are not the column of a role
metadata_of(row, mapped_columns) ==
    {<<key, row[key]>> : key \in {k \in DOMAIN row : k \notin mapped_columns /\ Truthy(row[k])}}

\* the row Asset.objects.create(project=, asset_id=, **defaults) inserts
NewAsset(pk, project, asset_id, defaults) ==
    [pk |-> pk, project |-> project, asset_id |-> asset_id,
     asset_type |-> defaults.asset_type, name |-> defaults.name,
     original_x |-> defaults.original_x, original_y |-> defaults.original_y,
     adjusted_x |-> NoneFloat, adjusted_y |-> NoneFloat, is_adjusted |-> FALSE,
     metadata |-> defaults.metadata, import_batch |-> defaults.import_batch]

\* an upsert that never looks the asset up and always inserts
update_or_create_always_creates(view, written, newpk, project, asset_id, defaults) ==
    [written |-> written \cup {NewAsset(newpk, project, asset_id, defaults)},
     created |-> TRUE, raised |-> "", pk |-> newpk]

\* an update that leaves the asset in the batch that created it
UpdatedAsset_keeps_batch(old, defaults) ==
    [old EXCEPT !.asset_type = defaults.asset_type,
                !.name = defaults.name,
                !.original_x = defaults.original_x,
                !.original_y = defaults.original_y,
                !.metadata = defaults.metadata]

\* an update that puts the asset back at its imported position
UpdatedAsset_resets_adjustment(old, defaults) ==
    [old EXCEPT !.asset_type = defaults.asset_type,
                !.name = defaults.name,
                !.original_x = defaults.original_x,
                !.original_y = defaults.original_y,
                !.adjusted_x = NoneFloat,
                !.adjusted_y = NoneFloat,
                !.is_adjusted = FALSE,
                !.metadata = defaults.metadata,
                !.import_batch = defaults.import_batch]

\* the row an update of `old` with the defaults leaves
UpdatedAsset(old, defaults) ==
    [old EXCEPT !.asset_type = defaults.asset_type,
                !.name = defaults.name,
                !.original_x = defaults.original_x,
                !.original_y = defaults.original_y,
                !.metadata = defaults.metadata,
                !.import_batch = defaults.import_batch]

\* an upsert whose update merges the new metadata into the old
update_or_create_merges_metadata(view, written, newpk, project, asset_id, defaults) ==
    LET found == {a \in view.assets : a.project = project /\ a.asset_id = asset_id}
    IN  IF found = {}
        THEN [written |-> written \cup {NewAsset(newpk, project, asset_id, defaults)},
              created |-> TRUE, raised |-> "", pk |-> newpk]
        ELSE LET old == CHOOSE a \in found : TRUE
                 keys == {kv[1] : kv \in defaults.metadata}
                 merged == {kv \in old.metadata : kv[1] \notin keys}
                              \cup defaults.metadata
             IN  [written |-> {a \in written : a.pk # old.pk}
                                 \cup {[UpdatedAsset(old, defaults) EXCEPT
                                           !.metadata = merged]},
                  created |-> FALSE, raised |-> "", pk |-> old.pk]

\* an upsert that reports an update as a creation
update_or_create_reports_created(view, written, newpk, project, asset_id, defaults) ==
    LET found == {a \in view.assets : a.project = project /\ a.asset_id = asset_id}
    IN  IF found = {}
        THEN [written |-> written \cup {NewAsset(newpk, project, asset_id, defaults)},
              created |-> TRUE, raised |-> "", pk |-> newpk]
        ELSE LET old == CHOOSE a \in found : TRUE
             IN  [written |-> {a \in written : a.pk # old.pk}
                                 \cup {UpdatedAsset(old, defaults)},
                  created |-> TRUE, raised |-> "", pk |-> old.pk]

\* Asset.objects.update_or_create(project=, asset_id=, defaults=): the rows
\* it leaves in the write set, whether it created, and the exception it raised
update_or_create(view, written, newpk, project, asset_id, defaults) ==
    LET found == {a \in view.assets : a.project = project /\ a.asset_id = asset_id}
    IN  IF found = {}
        THEN [written |-> written \cup {NewAsset(newpk, project, asset_id, defaults)},
              created |-> TRUE, raised |-> "", pk |-> newpk]
        ELSE IF Cardinality(found) > 1
        THEN [written |-> written, created |-> FALSE,
              raised |-> "MultipleObjectsReturned", pk |-> 0]
        ELSE LET old == CHOOSE a \in found : TRUE
             IN  [written |-> {a \in written : a.pk # old.pk}
                                 \cup {UpdatedAsset(old, defaults)},
                  created |-> FALSE, raised |-> "", pk |-> old.pk]

\* the asset type name itself as the key of the asset type cache
asset_type_key_exact(asset_type_name) == asset_type_name

\* asset_type_name.lower(), the key of the asset type cache
asset_type_key_of(asset_type_name) == Lower(asset_type_name)

\* the row skipped with continue and nothing appended to errors
RowError_records_nothing(st, row_num, msg) == st

\* the error of a row raised out of the loop instead of recorded
RowError_propagates(st, row_num, msg) ==
    [st EXCEPT !.pc = "done", !.raised = msg]

\* results['errors'].append(...) followed by continue, and the except clause
\* of the loop body: the error is recorded and the loop goes on
RowError(st, row_num, msg) ==
    [st EXCEPT !.results.errors = Append(@, [row |-> row_num, msg |-> msg])]

\* the writes of the call made outside any transaction
InTransaction_autocommit == FALSE

\* line 73: the batch, the rows and the asset count are written inside
\* transaction.atomic()
InTransaction == TRUE

\* the committed store after a write of the call: inside the transaction
\* the write stays in the write set until the commit
Publish(committed, tx) == IF InTransaction THEN committed ELSE Overlay(committed, tx)

EmptyResults == [created |-> 0, updated |-> 0, errors |-> << >>, assets |-> << >>]

\* an entry that reports every row as an insert
result_entry_always_created(asset_id, created, x, y) ==
    [asset_id |-> asset_id, created |-> TRUE, x |-> x, y |-> y]

\* lines 143-148: the entry of results['assets'] for an upserted row
result_entry(asset_id, created, x, y) ==
    [asset_id |-> asset_id, created |-> created, x |-> x, y |-> y]

\* the body of the for loop, lines 83-151, on one DictReader row: the state
\* of the call after it
ProcessRow(st, committed, pks, row_num, cells) ==
    LET row == DictRow(st.fieldnames, cells)
        mapping == st.mapping
        col_id == mapping["asset_id"]
        col_type == mapping["asset_type"]
        col_x == mapping["x"]
        col_y == mapping["y"]
        col_name == Get(mapping, "name", "")
        mapped_columns == Range(mapping)
        raw == <<Get(row, col_id, EmptyStr), Get(row, col_type, EmptyStr),
                 Get(row, col_x, EmptyStr), Get(row, col_y, EmptyStr)>>
        fail(s, msg) == RowError(s, row_num, msg)
    IN
    \* None.strip() raises AttributeError
    IF \E i \in 1..4 : raw[i] = NoneCell
    THEN [st |-> fail(st, "AttributeError"), pks |-> pks]
    ELSE
    LET asset_id == Strip(raw[1])
        asset_type_name == Strip(raw[2])
        x_str == Strip(raw[3])
        y_str == Strip(raw[4])
        x == float(x_str)
        y == float(y_str)
    IN
    IF asset_id = EmptyStr
    THEN [st |-> fail(st, "Missing asset_id"), pks |-> pks]
    ELSE IF asset_type_name = EmptyStr
    THEN [st |-> fail(st, "Missing asset_type"), pks |-> pks]
    ELSE IF x = FloatValueError \/ y = FloatValueError
    THEN [st |-> fail(st, "Invalid coordinates"), pks |-> pks]
    ELSE
    LET asset_type_key == asset_type_key_of(asset_type_name)
        hit == asset_type_key \in CacheKeys(st.asset_types_cache)
        type_pk == IF hit THEN CacheGet(st.asset_types_cache, asset_type_key)
                   ELSE pks.type
        st1 == IF hit THEN st
               ELSE [st EXCEPT
                       !.tx.types = @ \cup {NewAssetType(pks.type, asset_type_name)},
                       !.asset_types_cache = @ \cup {<<asset_type_key, pks.type>>}]
        pks1 == IF hit THEN pks ELSE [pks EXCEPT !.type = @ + 1]
        metadata == metadata_of(row, mapped_columns)
        name_raw == IF Falsy(col_name) THEN EmptyStr ELSE Get(row, col_name, EmptyStr)
    IN
    IF name_raw = NoneCell
    THEN [st |-> fail(st1, "AttributeError"), pks |-> pks1]
    ELSE
    LET name == Strip(name_raw)
        uoc == update_or_create(
                  Overlay(committed, st1.tx), st1.tx.assets, pks1.asset,
                  st.project, asset_id,
                  [asset_type |-> type_pk, name |-> name,
                   original_x |-> x, original_y |-> y,
                   metadata |-> metadata, import_batch |-> st.batch])
    IN
    IF uoc.raised # ""
    THEN [st |-> fail(st1, uoc.raised), pks |-> pks1]
    ELSE [st |-> [st1 EXCEPT
                    !.tx.assets = uoc.written,
                    !.results.created = IF uoc.created THEN @ + 1 ELSE @,
                    !.results.updated = IF uoc.created THEN @ ELSE @ + 1,
                    !.results.assets = Append(@, result_entry(asset_id, uoc.created,
                                                              x, y))],
          pks |-> IF uoc.created THEN [pks1 EXCEPT !.asset = @ + 1] ELSE pks1]


(***************************************************************************)
(* migrations/0011_seed_default_asset_types.py                              *)
(***************************************************************************)
SeedDefaults ==
    <<[name |-> <<"T", "N", " ", "I", "n", "t", "e", "r", "s", "e", "c", "t", "i", "o", "n">>,
       icon_shape |-> "circle", color |-> "#FF0000", size |-> 20],
      [name |-> <<"V", "S", "L">>,
       icon_shape |-> "square", color |-> "#0066FF", size |-> 20],
      [name |-> <<"C", "C", "T", "V">>,
       icon_shape |-> "triangle", color |-> "#00AA00", size |-> 20]>>

\* AssetType.objects.get_or_create(name=, defaults=) for the first n defaults
RECURSIVE SeedFirst(_, _, _)
SeedFirst(types, pk, n) ==
    IF n = 0 THEN [types |-> types, pk |-> pk]
    ELSE LET before == SeedFirst(types, pk, n - 1)
             d == SeedDefaults[n]
         IN  IF \E t \in before.types : t.name = d.name
             THEN before
             ELSE [types |-> before.types \cup
                      {[pk |-> before.pk, name |-> d.name, icon_shape |-> d.icon_shape,
                        color |-> d.color, size |-> d.size]},
                   pk |-> before.pk + 1]

\* a seeding that uses update_or_create: the rows of the three names are
\* rewritten with the defaults
seed_asset_types_overwrites(types, pk) ==
    LET seeded == SeedFirst(types, pk, Len(SeedDefaults))
    IN  [types |-> {IF \E i \in 1..Len(SeedDefaults) : SeedDefaults[i].name = t.name
                    THEN LET d == SeedDefaults[CHOOSE i \in 1..Len(SeedDefaults) :
                                                   SeedDefaults[i].name = t.name]
                         IN  [t EXCEPT !.icon_shape = d.icon_shape, !.color = d.color,
                                       !.size = d.size]
                    ELSE t : t \in seeded.types},
         pk |-> seeded.pk]

\* seed_asset_types, lines 5-20: the rows of the table and the next primary
\* key after it
seed_asset_types(types, pk) == SeedFirst(types, pk, Len(SeedDefaults))

\* the names of line 25
SeedNames == {SeedDefaults[i].name : i \in 1..Len(SeedDefaults)}

\* remove_asset_types, lines 23-25: filter(name__in=[...]).delete()
remove_asset_types(types) == {t \in types : t.name \notin SeedNames}

(***************************************************************************)
(* The inputs: CSV files, column mappings and calls.                        *)
(***************************************************************************)
HeaderDefault == <<"asset_id", "asset_type", "x", "y", "name", "depth">>
HeaderCustom == <<"TN", "Type", "E", "N", "Desc", "depth">>
HeaderNoY == <<"asset_id", "asset_type", "x", "name">>
HeaderNoName == <<"asset_id", "asset_type", "x", "y">>
HeaderNoType == <<"asset_id", "x", "y", "name">>
HeaderOnlyCol == <<"only_col">>

\* column_mapping=None
NoMapping == [r \in {} |-> ""]
MappingCustom ==
    [asset_id |-> "TN", asset_type |-> "Type", x |-> "E", y |-> "N", name |-> "Desc"]
MappingEmptyX == [x |-> ""]
MappingIdOnly == [asset_id |-> "TN"]
MappingExtraRole == [elevation |-> "depth"]
MappingNoName == [name |-> ""]
MappingNoType == [asset_id |-> "asset_id", x |-> "x", y |-> "y", name |-> "name"]
MappingAllEmpty == [asset_id |-> "", asset_type |-> "", x |-> "", y |-> ""]

\* A1,Valve,1,2,n1,3
Row_A1 ==
    <<<<"A", "1">>,
      <<"V", "a", "l", "v", "e">>,
      <<"1">>,
      <<"2">>,
      <<"n", "1">>,
      <<"3">>>>

\*  A1 ,VALVE,2.5,2.0,,
Row_A1b ==
    <<<<" ", "A", "1", " ">>,
      <<"V", "A", "L", "V", "E">>,
      <<"2", ".", "5">>,
      <<"2", ".", "0">>,
      <<>>,
      <<>>>>

\* A2,cctv,-1.50,2,n2,(one space)
Row_A2 ==
    <<<<"A", "2">>,
      <<"c", "c", "t", "v">>,
      <<"-", "1", ".", "5", "0">>,
      <<"2">>,
      <<"n", "2">>,
      <<" ">>>>

\* (two spaces),,1,2,n1,3
Row_NoId ==
    <<<<" ", " ">>,
      <<>>,
      <<"1">>,
      <<"2">>,
      <<"n", "1">>,
      <<"3">>>>

\* A2, ,abc,2,n2,3
Row_NoType ==
    <<<<"A", "2">>,
      <<" ">>,
      <<"a", "b", "c">>,
      <<"2">>,
      <<"n", "2">>,
      <<"3">>>>

\* A1,Valve,abc,,n1,3
Row_BadXY ==
    <<<<"A", "1">>,
      <<"V", "a", "l", "v", "e">>,
      <<"a", "b", "c">>,
      <<>>,
      <<"n", "1">>,
      <<"3">>>>

\* A2,Valve,inf,2,n2,
Row_Inf ==
    <<<<"A", "2">>,
      <<"V", "a", "l", "v", "e">>,
      <<"i", "n", "f">>,
      <<"2">>,
      <<"n", "2">>,
      <<>>>>

\* A1,valve,1,NaN,,
Row_NaN ==
    <<<<"A", "1">>,
      <<"v", "a", "l", "v", "e">>,
      <<"1">>,
      <<"N", "a", "N">>,
      <<>>,
      <<>>>>

\* A2,Valve,1
Row_Short ==
    <<<<"A", "2">>,
      <<"V", "a", "l", "v", "e">>,
      <<"1">>>>

\* A2,Pump,1,2
Row_ShortNm ==
    <<<<"A", "2">>,
      <<"P", "u", "m", "p">>,
      <<"1">>,
      <<"2">>>>

\* A1,Valve,1,2,n1,3,extra
Row_Long ==
    <<<<"A", "1">>,
      <<"V", "a", "l", "v", "e">>,
      <<"1">>,
      <<"2">>,
      <<"n", "1">>,
      <<"3">>,
      <<"e", "x", "t", "r", "a">>>>

\* A3,Valve,1,2
Row_NoNameCol ==
    <<<<"A", "3">>,
      <<"V", "a", "l", "v", "e">>,
      <<"1">>,
      <<"2">>>>

\* F1,1,2,test
Row_Fixed ==
    <<<<"F", "1">>,
      <<"1">>,
      <<"2">>,
      <<"t", "e", "s", "t">>>>

\* val
Row_Val == <<<<"v", "a", "l">>>>

\* a line the reader cannot parse
Row_CR ==
    << <<"A", "3">>,
       <<"V", "a", "l", "v", "e">>,
       <<"1", "\r", "2">>,
       <<"2">>,
       <<"n", "3">>,
       << >> >>

\* A4,VSL,4,2,n4,
Row_A4 ==
    << <<"A", "4">>,
       <<"V", "S", "L">>,
       <<"4">>,
       <<"2">>,
       <<"n", "4">>,
       << >> >>

\* (one space),(one space),abc,,n5,
Row_AllBad ==
    << <<" ">>,
       <<" ">>,
       <<"a", "b", "c">>,
       << >>,
       <<"n", "5">>,
       << >> >>

\* ,Valve
Row_ShortNoId ==
    << << >>,
       <<"V", "a", "l", "v", "e">> >>

\* the data rows of the files under the default header: rows that import,
\* and rows that fail, for the behaviours over several imports
CoreRows == {Row_A1, Row_A1b, Row_A2, Row_NoId, Row_BadXY}

\* the data rows for the behaviour of one row: every way a row can fail or
\* pass the loop body
EdgeRows == {Row_NoType, Row_Inf, Row_NaN, Row_Short, Row_ShortNm, Row_Long}

\* the data rows that fail one or several of the checks of lines 90-104
OrderRows == {Row_A1, Row_NoId, Row_NoType, Row_BadXY, Row_AllBad, Row_ShortNoId}

\* the non-empty sequences over S of length at most n
SeqsUpTo(S, n) == UNION {[1..k -> S] : k \in 1..n}

NewCall(project, lines, column_mapping, filename, file_name, fixed_asset_type) ==
    [project |-> project, lines |-> lines, column_mapping |-> column_mapping,
     filename |-> filename, file_name |-> file_name,
     fixed_asset_type |-> fixed_asset_type]

\* the calls that import a file of one to n data rows
CallsRows(S, n) ==
    {NewCall(1, <<HeaderDefault>> \o rows, NoMapping, "a.csv", "test.csv", NoneCell) :
        rows \in SeqsUpTo(S, n)}

CallsProject2(n) ==
    {NewCall(2, <<HeaderDefault>> \o rows, NoMapping, "b.csv", "test.csv", NoneCell) :
        rows \in SeqsUpTo({Row_A1, Row_A1b}, IF n > 1 THEN 1 ELSE n)}

CallsHeader ==
    {NewCall(1, <<HeaderDefault>>, NoMapping, "a.csv", "test.csv", NoneCell),
     NewCall(1, << >>, NoMapping, "a.csv", "test.csv", NoneCell),
     NewCall(1, << >>, MappingAllEmpty, "a.csv", "test.csv", NoneCell),
     NewCall(1, << << >>, Row_A1 >>, NoMapping, "a.csv", "test.csv", NoneCell),
     NewCall(1, <<HeaderOnlyCol, Row_Val>>, NoMapping, "a.csv", "test.csv", NoneCell),
     NewCall(1, <<HeaderNoY, Row_NoNameCol>>, NoMapping, "a.csv", "test.csv", NoneCell),
     NewCall(1, <<HeaderCustom, Row_A1>>, MappingCustom, "a.csv", "test.csv", NoneCell),
     NewCall(1, <<HeaderCustom, Row_A1>>, NoMapping, "a.csv", "test.csv", NoneCell),
     NewCall(1, <<HeaderDefault, Row_A1>>, MappingEmptyX, "a.csv", "test.csv", NoneCell),
     NewCall(1, <<HeaderDefault, Row_A1>>, MappingIdOnly, "a.csv", "test.csv", NoneCell),
     NewCall(1, <<HeaderDefault, Row_A1>>, MappingExtraRole, NoneKey, "test.csv", NoneCell),
     NewCall(1, <<HeaderDefault, Row_A1>>, MappingNoName, "", NoneKey, NoneCell),
     NewCall(1, <<HeaderNoName, Row_NoNameCol>>, NoMapping, "a.csv", "test.csv", NoneCell),
     NewCall(1, <<HeaderDefault, Row_A1b, << >>, Row_A2>>, NoMapping, "a.csv", "test.csv",
             NoneCell),
     NewCall(1, <<HeaderDefault, Row_BadXY>>, NoMapping, "a.csv", "test.csv", NoneCell),
     NewCall(1, <<HeaderDefault, Row_A1, Row_CR>>, NoMapping, "a.csv", "test.csv", NoneCell),
     NewCall(1, <<HeaderNoType, Row_Fixed>>, MappingNoType, "a.csv", "test.csv",
             <<"C", "C", "T", "V">>),
     NewCall(1, <<HeaderDefault, Row_A1>>, NoMapping, "a.csv", "test.csv",
             <<"C", "C", "T", "V">>)}

\* the calls of the behaviours over several imports
Calls(n) == CallsRows(CoreRows, n) \cup CallsProject2(n)

\* the calls of the behaviours of one row
CallsEdge(n) == CallsRows(EdgeRows, n)

\* the calls that differ in header, mapping and file name
CallsMapped(n) ==
    {c \in CallsHeader : Len(DataLines(c.lines)) <= n}
        \cup CallsRows({Row_A1, Row_A1b}, IF n > 1 THEN 1 ELSE n)

\* the calls made while a reader queries the store
CallsRead(n) == CallsRows({Row_A1, Row_A1b, Row_BadXY}, n)

\* the calls whose rows fail the checks of the loop body
CallsOrder(n) == CallsRows(OrderRows, IF n > 2 THEN 2 ELSE n)

\* the calls two processes make at the same time: rows of a new asset type
\* (Valve) and of seeded ones (CCTV, VSL)
CallsConc(n) == CallsRows({Row_A1, Row_A2, Row_A4}, IF n > 2 THEN 2 ELSE n)

(***************************************************************************)
(* validators.py.  An uploaded file is its name, its size, the bytes that  *)
(* file.read(2048) returns and what magic.from_buffer answers for them: a  *)
(* MIME type, or MagicRaises for an exception of the library.  A byte is   *)
(* its ASCII character, or its hexadecimal value for the others.           *)
(***************************************************************************)
\* str.endswith and bytes.startswith
EndsWith(s, suffix) ==
    /\ Len(s) >= Len(suffix)
    /\ SubSeq(s, Len(s) - Len(suffix) + 1, Len(s)) = suffix

StartsWith(s, prefix) ==
    /\ Len(s) >= Len(prefix)
    /\ SubSeq(s, 1, Len(prefix)) = prefix

\* s.split('.')[-1]
AfterLastDot(s) ==
    LET dots == {i \in 1..Len(s) : s[i] = "."}
    IN  IF dots = {} THEN s
        ELSE SubSeq(s, (CHOOSE i \in dots : \A j \in dots : j <= i) + 1, Len(s))

MagicRaises == "<raises>"

\* lines 53-57 and 104-108: what the body of the try statement raises
magic_check(mime, allowed_mime_types) ==
    IF mime = MagicRaises THEN "Exception"
    ELSE IF mime \notin allowed_mime_types THEN "ValidationError"
    ELSE ""

\* lines 58-60 and 110-111: `except Exception` catches every exception the
\* try body raises, the ValidationError of the MIME check included, and
\* what it lets out of the try statement is nothing
except_Exception(raised) == ""

\* PDFFileValidator: lines 20-21
PDF_allowed_mime_types == {"application/pdf"}
PDF_max_size == 52428800

\* a constructor that keeps the default whatever the argument
PDF_init_ignores_argument(max_size) == PDF_max_size

\* PDFFileValidator.__init__, lines 23-25; max_size None is 0 here
PDF_init(max_size) == IF max_size # 0 THEN max_size ELSE PDF_max_size

\* PDFFileValidator.__call__, lines 27-60
PDFFileValidator(max_size, file, HAS_MAGIC) ==
    IF file.size > max_size
    THEN "ValidationError"
    ELSE IF ~EndsWith(Lower(file.name), <<".", "p", "d", "f">>)
    THEN "ValidationError"
    ELSE IF ~StartsWith(file.header, <<"%", "P", "D", "F", "-">>)
    THEN "ValidationError"
    ELSE IF HAS_MAGIC
    THEN IF except_Exception(magic_check(file.mime, PDF_allowed_mime_types)) # ""
         THEN "ValidationError"
         ELSE "ok"
    ELSE "ok"

\* ImageFileValidator: lines 74-76
allowed_extensions ==
    {<<".", "p", "n", "g">>, <<".", "j", "p", "g">>, <<".", "j", "p", "e", "g">>, <<".", "g", "i", "f">>, <<".", "w", "e", "b", "p">>}
Image_allowed_mime_types == {"image/png", "image/jpeg", "image/gif", "image/webp"}
Image_max_size == 5242880

\* ImageFileValidator.__init__, lines 78-80
Image_init(max_size) == IF max_size # 0 THEN max_size ELSE Image_max_size

\* lines 113-124: the header checks
header_check(file_header) ==
    LET is_png == StartsWith(file_header, <<"0x89", "P", "N", "G">>)
        is_jpeg == StartsWith(file_header, <<"0xff", "0xd8", "0xff">>)
        is_gif == \/ StartsWith(file_header, <<"G", "I", "F", "8", "7", "a">>)
                  \/ StartsWith(file_header, <<"G", "I", "F", "8", "9", "a">>)
    IN  is_png \/ is_jpeg \/ is_gif

\* ImageFileValidator.__call__, lines 82-124
ImageFileValidator(max_size, file, HAS_MAGIC) ==
    LET ext == IF "." \in Range(file.name)
               THEN <<".">> \o AfterLastDot(Lower(file.name))
               ELSE << >>
    IN  IF file.size > max_size
        THEN "ValidationError"
        ELSE IF ext \notin allowed_extensions
        THEN "ValidationError"
        ELSE IF HAS_MAGIC /\ magic_check(file.mime, Image_allowed_mime_types) = ""
        THEN "ok"
        ELSE IF HAS_MAGIC
                /\ except_Exception(magic_check(file.mime, Image_allowed_mime_types)) # ""
        THEN "ValidationError"
        ELSE IF ~header_check(file.header)
        THEN "ValidationError"
        ELSE "ok"

\* the contents of uploaded files: the first bytes, the type of file they
\* are, and the MIME type libmagic reports for them
Content_Pdf ==
    [header |-> <<"%", "P", "D", "F", "-", "1", ".", "4">>, is |-> "pdf", mime |-> "application/pdf"]
Content_Png ==
    [header |-> <<"0x89", "P", "N", "G", "0x0d", "0x0a", "0x1a", "0x0a", "0x00">>,
     is |-> "png", mime |-> "image/png"]
Content_Jpeg ==
    [header |-> <<"0xff", "0xd8", "0xff", "0xe0", "0x00">>, is |-> "jpeg", mime |-> "image/jpeg"]
Content_Gif ==
    [header |-> <<"G", "I", "F", "8", "9", "a">>, is |-> "gif", mime |-> "image/gif"]
Content_WebP ==
    [header |-> <<"R", "I", "F", "F">> \o <<"0x1a", "0x00", "0x00", "0x00">> \o <<"W", "E", "B", "P", "V", "P", "8", " ">>,
     is |-> "webp", mime |-> "image/webp"]
Content_Text ==
    [header |-> <<"N", "O", "T", " ", "A", " ", "P", "D", "F">>, is |-> "text", mime |-> "text/plain"]
Content_Empty ==
    [header |-> << >>, is |-> "empty", mime |-> "application/x-empty"]

\* the five bytes %PDF- in front of content that is no PDF, with
\* magic.from_buffer answering a type other than application/pdf
Content_PdfPrefixed ==
    [header |-> <<"%", "P", "D", "F", "-", "<", "h", "t", "m", "l", ">">>, is |-> "html",
     mime |-> "text/html"]

Contents ==
    {Content_Pdf, Content_Png, Content_Jpeg, Content_Gif, Content_WebP, Content_Text,
     Content_Empty, Content_PdfPrefixed}

\* the names of uploaded files
FileNames ==
    {<<"t", "e", "s", "t", ".", "p", "d", "f">>,
     <<"S", "c", "a", "n", ".", "P", "D", "F">>,
     <<"b", "a", "d", ".", "t", "x", "t">>,
     <<"p", "d", "f">>,
     <<"a", ".", "p", "d", "f", ".", "e", "x", "e">>,
     <<"i", "m", "g", ".", "p", "n", "g">>,
     <<"i", "m", "g", ".", "J", "P", "G">>,
     <<"p", "i", "c", ".", "j", "p", "e", "g">>,
     <<"a", ".", "g", "i", "f">>,
     <<"a", ".", "w", "e", "b", "p">>,
     <<"i", "m", "g", ".", "b", "m", "p">>,
     <<"p", "n", "g">>,
     <<"a", ".", "t", "a", "r", ".", "g", "i", "f">>,
     <<"i", "m", "g", ".">>}

\* the sizes of uploaded files, around the limits of the validators
FileSizes == {0, 100, 101, 200, Image_max_size, Image_max_size + 1,
              PDF_max_size, PDF_max_size + 1}

\* the max_size arguments of the validators: None (0), and 100 as in the tests
MaxSizeArgs == {0, 100}

\* an uploaded file of a content: magic.from_buffer answers with the type
\* of the content or raises
FileOf(name, size, content, raises) ==
    [name |-> name, size |-> size, header |-> content.header, is |-> content.is,
     mime |-> IF raises THEN MagicRaises ELSE content.mime]

\* the sizes a file of the content can have: at least the bytes read from it
SizesOf(content) ==
    IF content.header = << >> THEN {0} ELSE FileSizes \ {0}

\* the uploaded files
Files ==
    UNION {{FileOf(n, s, c, r) : n \in FileNames, s \in SizesOf(c), r \in BOOLEAN} :
              c \in Contents}

(***************************************************************************)
(* permissions.py                                                           *)
(***************************************************************************)
\* request.user: None, an AnonymousUser, or a logged-in User
Users == {"None", "AnonymousUser", "User"}

is_authenticated(user) == user = "User"

\* a permission that looks at DEBUG only
has_permission_debug_only(DEBUG, user) == IF DEBUG THEN "True" ELSE "False"

\* IsAuthenticatedOrDebug.has_permission, lines 15-18: the value returned.
\* `request.user and request.user.is_authenticated` is None for the user None
has_permission(DEBUG, user) ==
    IF DEBUG THEN "True"
    ELSE IF user = "None" THEN "None"
    ELSE IF is_authenticated(user) THEN "True" ELSE "False"

\* the view is reached when the value is truthy; it answers 401 or 403 otherwise
Granted(value) == value = "True"

(***************************************************************************)
(* The sheet splitter, the calibration engine and the asset ledger.  Their *)
(* code (the models and the API views the tests call) is not among the     *)
(* sources: the operations below follow spec.md sections 3, 4.1, 4.2 and   *)
(* 4.4 and the requests and answers of tests.py.                           *)
(***************************************************************************)
\* the most sheets of a project
MaxSheets == 3

\* the most adjustments logged
MaxAdjustments == 2

\* the migration is applied or reverted at most this many times
MaxMigrations == 4

\* a coordinate of a JSON body: a number, or a string to be parsed
JsonNumber(m, e) == [json |-> "number", num |-> Normalize(m, e), text |-> << >>]
JsonString(text) == [json |-> "string", num |-> Normalize(0, 0), text |-> text]

\* the number a value of a request stands for
to_float(value) ==
    IF value.json = "number" THEN value.num ELSE float(value.text)

\* "must be finite and must parse as a number"
ValidNumber(value) == IsFinite(to_float(value))

\* a - b and a / b of finite floats; the quotient is cut to three decimals
Minus(a, b) ==
    LET e == IF a.e > b.e THEN a.e ELSE b.e
    IN  Normalize(a.m * 10^(e - a.e) - b.m * 10^(e - b.e), e)

Abs(n) == IF n < 0 THEN -n ELSE n

Divide(a, b) ==
    LET sign == IF (a.m < 0) = (b.m < 0) THEN 1 ELSE -1
        num == Abs(a.m) * 10^(b.e) * 1000
        den == Abs(b.m) * 10^(a.e)
    IN  Normalize(sign * (num \div den), 3)

(***************************************************************************)
(* spec.md 4.4, SheetSplitter                                              *)
(***************************************************************************)
\* a point of a split request: the coordinates it gives
Point(x, y) == [given |-> {"x", "y"}, x |-> x, y |-> y]
PointMissing == [given |-> {}, x |-> 0, y |-> 0]
PointOnlyX(x) == [given |-> {"x"}, x |-> x, y |-> 0]

\* "fails with InvalidInput if either point lacks both coordinates"
HasBothCoordinates(p) == p.given = {"x", "y"}

\* a cut record {p1, p2, flipped}
Cut(p1, p2, flipped) ==
    [p1 |-> [x |-> p1.x, y |-> p1.y], p2 |-> [x |-> p2.x, y |-> p2.y], flipped |-> flipped]

\* Sheet.objects.create(project=, name=, pdf_file=): page_number 1, z_index 0,
\* cuts_json []
NewSheet(project, pdf_file) ==
    [project |-> project, pdf_file |-> pdf_file, page_number |-> 1, z_index |-> 0,
     offset_x |-> 0, offset_y |-> 0, cuts_json |-> << >>]

\* the cut list of the sheet a split creates, without the original's cuts
new_sheet_cuts_only_the_new_cut(prior, p1, p2) == <<Cut(p1, p2, TRUE)>>

\* the cut list of the sheet a split creates: the original's pre-split list
\* plus one record {p1, p2, flipped: true}
new_sheet_cuts(prior, p1, p2) == Append(prior, Cut(p1, p2, TRUE))

\* split(sheet, p1, p2) -> newSheet: the sheets afterwards and the answer
split(all, pk, newpk, p1, p2) ==
    IF ~HasBothCoordinates(p1) \/ ~HasBothCoordinates(p2)
    THEN [sheets |-> all, status |-> 400, new_sheet |-> 0]
    ELSE LET original == all[pk]
             prior == original.cuts_json
             cloned == [original EXCEPT !.cuts_json = new_sheet_cuts(prior, p1, p2)]
         IN  [sheets |-> [s \in DOMAIN all \cup {newpk} |->
                             IF s = newpk THEN cloned
                             ELSE IF s = pk
                             THEN [original EXCEPT
                                      !.cuts_json = Append(prior, Cut(p1, p2, FALSE))]
                             ELSE all[s]],
              status |-> 200, new_sheet |-> newpk]

\* the points of the split requests
SplitPoints ==
    {Point(0, 50), Point(100, 50), PointMissing, PointOnlyX(7)}

(***************************************************************************)
(* spec.md 3 and 4.1, CalibrationEngine                                    *)
(***************************************************************************)
\* create_project(): the defaults of a Project
NewProject ==
    [pixels_per_meter |-> Normalize(100, 0), scale_calibrated |-> FALSE,
     origin_x |-> Normalize(0, 0), origin_y |-> Normalize(0, 0),
     canvas_rotation |-> Normalize(0, 0), asset_rotation |-> Normalize(0, 0),
     ref_asset_id |-> "", ref_pixel_x |-> NoneFloat, ref_pixel_y |-> NoneFloat,
     coord_unit |-> "meters"]

\* the recognized values of coord_unit
CoordUnits == {"meters", "degrees", "gda94_geo", "gda94_mga"}

\* the numeric fields of a calibration request
NumericFields ==
    {"pixel_distance", "real_distance", "origin_x", "origin_y", "canvas_rotation",
     "asset_rotation", "ref_pixel_x", "ref_pixel_y"}

\* the fields of a request, by the operation of 4.1 they belong to
Sent(payload, field) == field \in DOMAIN payload

\* scale_calibrated after a call that forgets it unless the call sets the scale
scale_calibrated_forgets(before, sets_scale) == sets_scale

\* scale_calibrated after a call: set by setScale, "irrevocably"
scale_calibrated_after(before, sets_scale) == before \/ sets_scale

\* the field of the project after an accepted call
field_after(project, payload, field) ==
    IF Sent(payload, field) THEN to_float(payload[field]) ELSE project[field]

\* a calibration call that writes the valid fields before it rejects the call
calibrate_writes_before_validating(project, payload) ==
    LET invalid == \/ \E f \in NumericFields \cap DOMAIN payload : ~ValidNumber(payload[f])
                   \/ Sent(payload, "coord_unit") /\ payload.coord_unit \notin CoordUnits
    IN  [project |-> [project EXCEPT
                         !.origin_x = IF Sent(payload, "origin_x")
                                         /\ ValidNumber(payload.origin_x)
                                      THEN to_float(payload.origin_x) ELSE @],
         status |-> IF invalid THEN 400 ELSE 200]

\* the calibration call of a project: setScale, setOrigin, setRotation,
\* setAssetCalibration and setCoordUnit for the fields the request carries.
\* Every input is checked before any field is written.
calibrate(project, payload) ==
    LET sets_scale == Sent(payload, "pixel_distance") /\ Sent(payload, "real_distance")
    IN  IF \E f \in NumericFields \cap DOMAIN payload : ~ValidNumber(payload[f])
        THEN [project |-> project, status |-> 400]
        ELSE IF Sent(payload, "coord_unit") /\ payload.coord_unit \notin CoordUnits
        THEN [project |-> project, status |-> 400]
        ELSE IF sets_scale /\ to_float(payload.real_distance).m <= 0
        THEN [project |-> project, status |-> 400]
        ELSE [project |->
                 [pixels_per_meter |->
                      IF sets_scale
                      THEN Divide(to_float(payload.pixel_distance),
                                  to_float(payload.real_distance))
                      ELSE project.pixels_per_meter,
                  scale_calibrated |->
                      scale_calibrated_after(project.scale_calibrated, sets_scale),
                  origin_x |-> field_after(project, payload, "origin_x"),
                  origin_y |-> field_after(project, payload, "origin_y"),
                  canvas_rotation |-> field_after(project, payload, "canvas_rotation"),
                  asset_rotation |-> field_after(project, payload, "asset_rotation"),
                  ref_asset_id |-> IF Sent(payload, "ref_asset_id")
                                   THEN payload.ref_asset_id ELSE project.ref_asset_id,
                  ref_pixel_x |-> field_after(project, payload, "ref_pixel_x"),
                  ref_pixel_y |-> field_after(project, payload, "ref_pixel_y"),
                  coord_unit |-> IF Sent(payload, "coord_unit")
                                 THEN payload.coord_unit ELSE project.coord_unit],
              status |-> 200]

\* the bodies of the calibration requests
CalibrationPayloads ==
    {[pixel_distance |-> JsonNumber(500, 0), real_distance |-> JsonNumber(10, 0)],
     [pixel_distance |-> JsonNumber(500, 0), real_distance |-> JsonNumber(0, 0)],
     [pixel_distance |-> JsonNumber(500, 0), real_distance |-> JsonNumber(-10, 0)],
     [pixel_distance |-> JsonNumber(0, 0), real_distance |-> JsonNumber(10, 0)],
     [pixel_distance |-> JsonNumber(-500, 0), real_distance |-> JsonNumber(10, 0)],
     [pixel_distance |-> JsonString(<<"a", "b", "c">>), real_distance |-> JsonNumber(10, 0)],
     [pixel_distance |-> JsonNumber(500, 0), real_distance |-> JsonString(<<"i", "n", "f">>)],
     [pixel_distance |-> JsonNumber(500, 0), real_distance |-> JsonNumber(10, 0),
      canvas_rotation |-> JsonString(<<"i", "n", "f">>)],
     [origin_x |-> JsonNumber(100, 0), origin_y |-> JsonNumber(200, 0)],
     [origin_x |-> JsonString(<<"i", "n", "f">>)],
     [origin_x |-> JsonString(<<"a", "b", "c">>)],
     [origin_x |-> JsonNumber(100, 0), origin_y |-> JsonString(<<"n", "a", "n">>)],
     [canvas_rotation |-> JsonNumber(45, 0)],
     [asset_rotation |-> JsonNumber(125, 1), ref_asset_id |-> "REF1",
      ref_pixel_x |-> JsonNumber(300, 0), ref_pixel_y |-> JsonNumber(400, 0)],
     [coord_unit |-> "degrees"],
     [coord_unit |-> "gda94_geo"],
     [coord_unit |-> "invalid"],
     [coord_unit |-> "invalid", origin_x |-> JsonNumber(100, 0)]}

(***************************************************************************)
(* spec.md 3 and 4.2, AssetLedger                                          *)
(***************************************************************************)
\* current_x / current_y: adjusted if is_adjusted else original
current_x(asset) == IF asset.is_adjusted THEN asset.adjusted_x ELSE asset.original_x
current_y(asset) == IF asset.is_adjusted THEN asset.adjusted_y ELSE asset.original_y

\* the AdjustmentLog of a move of the asset, with delta_x and delta_y derived
\* at creation (delta_distance is their hypot)
NewAdjustmentLog(asset, from_x, from_y, to_x, to_y, notes) ==
    [asset |-> asset.pk, from_x |-> from_x, from_y |-> from_y, to_x |-> to_x, to_y |-> to_y,
     notes |-> notes, delta_x |-> Minus(to_x, from_x), delta_y |-> Minus(to_y, from_y)]

\* the position an adjustment records as its from: the original always
from_of_original(asset) == [x |-> asset.original_x, y |-> asset.original_y]

\* the position an adjustment records as its from: the current position
\* before the mutation
from_of(asset) == [x |-> current_x(asset), y |-> current_y(asset)]

\* adjust(asset, x, y, notes) -> AdjustmentLog, in one transaction: when the
\* store fails the insert of the log the update of the asset is undone too
adjust(asset, logs, payload, store_fails) ==
    IF \E f \in {"x", "y"} : ~Sent(payload, f) \/ ~ValidNumber(payload[f])
    THEN [asset |-> asset, logs |-> logs, status |-> 400]
    ELSE IF store_fails
    THEN [asset |-> asset, logs |-> logs, status |-> 500]
    ELSE LET from == from_of(asset)
             x == to_float(payload.x)
             y == to_float(payload.y)
         IN  [asset |-> [asset EXCEPT !.adjusted_x = x, !.adjusted_y = y,
                                      !.is_adjusted = TRUE],
              logs |-> Append(logs, NewAdjustmentLog(asset, from.x, from.y, x, y,
                                                     payload.notes)),
              status |-> 200]

\* the bodies of the adjust requests
AdjustPayloads ==
    {[x |-> JsonNumber(13, 0), y |-> JsonNumber(24, 0), notes |-> "moved"],
     [x |-> JsonString(<<"1", "0", ".", "0">>), y |-> JsonString(<<"2", "0">>),
      notes |-> "back"],
     [notes |-> "no coords"],
     [x |-> JsonNumber(13, 0), notes |-> "no y"],
     [x |-> JsonString(<<"a", "b", "c">>), y |-> JsonString(<<"2", "4", ".", "0">>), notes |-> ""],
     [x |-> JsonString(<<"i", "n", "f">>), y |-> JsonString(<<"2", "4", ".", "0">>), notes |-> ""],
     [x |-> JsonString(<<"1", "3", ".", "0">>), y |-> JsonString(<<"n", "a", "n">>), notes |-> ""]}

(***************************************************************************)
(* State.                                                                   *)
(***************************************************************************)
VARIABLES
    db,        \* the committed store: what a query outside a transaction sees
    pks,       \* the next primary key of each table
    imp,       \* per process: the import_assets_from_csv call it is in
    observed,  \* the store as the reader last queried it, and the processes
               \* that had upserted assets in an open transaction at that time
    log,       \* the calls that have returned or raised, in order
    gate,      \* the settings of the process (DEBUG, HAS_MAGIC) and the last
               \* call of a validator or of the permission class with its answer
    sheets,    \* the Sheet table: primary key to row
    calib,     \* the Project row the calibration calls are made on
    adjustments, \* the AdjustmentLog table, in order of insertion
    call       \* the last request of the split, calibrate and adjust
               \* operations, with its answer

\* the variables of the import, and those of the rest of the application
importVars == <<db, pks, imp, observed, log>>
apiVars == <<gate, sheets, calib, adjustments, call>>

vars == <<db, pks, imp, observed, log, gate, sheets, calib, adjustments, call>>

\* no validator and no permission has been called
NoGate(DEBUG, HAS_MAGIC) ==
    [DEBUG |-> DEBUG, HAS_MAGIC |-> HAS_MAGIC, op |-> "", answer |-> "",
     file |-> FileOf(<< >>, 0, Content_Empty, FALSE), max_size |-> 0, user |-> "None"]

\* no request has been made
NoCall == [op |-> ""]

\* a new project without sheets, and no request made
CoreIdle ==
    /\ sheets = << >>
    /\ calib = NewProject
    /\ adjustments = << >>
    /\ call = NoCall

\* the rest of the application while the imports run
ApiIdle ==
    /\ gate = NoGate(FALSE, FALSE)
    /\ CoreIdle

NoTx == EmptyStore

Idle ==
    [pc |-> "idle", project |-> 0, call |-> NewCall(0, << >>, NoMapping, "", "", NoneCell),
     mapping |-> DEFAULT_MAPPING, fieldnames |-> << >>, asset_types_cache |-> {},
     results |-> EmptyResults, batch |-> 0, done |-> 0, tx |-> NoTx,
     raised |-> "", missing |-> << >>, ids_before |-> {}, aborted |-> FALSE]

Init ==
    LET seeded == seed_asset_types({}, 1)
    IN  /\ db = [EmptyStore EXCEPT !.types = seeded.types]
        /\ pks = [asset |-> 1, type |-> seeded.pk, batch |-> 1]
        /\ imp = [p \in Procs |-> Idle]
        /\ observed = [store |-> db, inflight |-> {}]
        /\ log = << >>
        /\ ApiIdle

\* the data rows read by the calls made so far
RowsRead ==
    LET len(i) == Len(DataLines(log[i].call.lines))
        sum[i \in 0..Len(log)] == IF i = 0 THEN 0 ELSE sum[i - 1] + len(i)
    IN  sum[Len(log)]

\* the row the next iteration of the loop of process p reads
NextCells(p) == DataLines(imp[p].call.lines)[imp[p].done + 1]

\* the asset ids the project holds in a store
AssetIds(store, project) == {a.asset_id : a \in {b \in store.assets : b.project = project}}

\* the number of assets of the project in a store
AssetCount(store, project) == Cardinality({a \in store.assets : a.project = project})

\* what the log keeps of a call: its arguments, what it raised or returned,
\* the asset ids of the project before it and the asset count after it
LogEntry(st, after) ==
    [call |-> st.call, raised |-> st.raised, missing |-> st.missing,
     results |-> st.results, batch |-> st.batch, ids_before |-> st.ids_before,
     asset_count |-> AssetCount(after, st.project)]

(***************************************************************************)
(* import_assets_from_csv, lines 20-71: the call, the header check and the  *)
(* asset type cache.  The signature has no fixed_asset_type parameter: a     *)
(* call that passes it raises TypeError before the body runs.               *)
(***************************************************************************)
Call(p, c) ==
    /\ LET mapping == MergeMapping(c.column_mapping)
           fieldnames == FieldnamesOf(c.lines)
           missing == MissingRoles(mapping, fieldnames)
           st == [Idle EXCEPT !.project = c.project, !.call = c,
                              !.mapping = mapping, !.fieldnames = fieldnames,
                              !.ids_before = AssetIds(db, c.project)]
           raise(exc, m) == [st EXCEPT !.pc = "done", !.raised = exc, !.missing = m]
       IN  IF c.fixed_asset_type # NoneCell
           THEN /\ imp' = [imp EXCEPT ![p] = raise("TypeError", << >>)]
                /\ log' = Append(log, LogEntry(raise("TypeError", << >>), db))
           ELSE IF HeaderCheckTypeError(mapping, fieldnames)
           THEN /\ imp' = [imp EXCEPT ![p] = raise("TypeError", << >>)]
                /\ log' = Append(log, LogEntry(raise("TypeError", << >>), db))
           ELSE IF missing # << >>
           THEN /\ imp' = [imp EXCEPT ![p] = raise("ValueError", missing)]
                /\ log' = Append(log, LogEntry(raise("ValueError", missing), db))
           ELSE /\ imp' = [imp EXCEPT ![p] =
                              [st EXCEPT !.pc = "begin",
                                         !.asset_types_cache = asset_types_cache_of(db.types)]]
                /\ log' = log
    /\ UNCHANGED <<db, pks, observed>>
    /\ UNCHANGED apiVars

\* lines 73-80: the transaction begins and the batch is created in it
Begin(p) ==
    /\ imp[p].pc = "begin"
    /\ LET st == imp[p]
           c == st.call
           batch == [pk |-> pks.batch, project |-> st.project,
                     filename |-> batch_filename_of(c.filename, c.file_name),
                     asset_count |-> 0]
           after == [st EXCEPT !.pc = "rows", !.batch = batch.pk,
                               !.tx.batches = {batch}]
       IN  /\ imp' = [imp EXCEPT ![p] = after]
           /\ db' = Publish(db, after.tx)
    /\ pks' = [pks EXCEPT !.batch = @ + 1]
    /\ UNCHANGED <<observed, log>>
    /\ UNCHANGED apiVars

\* lines 82-151: one iteration of the loop over the reader.  An exception
\* of the reader itself is raised by the for statement, outside the try of
\* line 83: it leaves the atomic block, which rolls the transaction back
Row(p) ==
    /\ imp[p].pc = "rows"
    /\ LET st == imp[p]
           data == DataLines(st.call.lines)
       IN  /\ st.done < Len(data)
           /\ IF ReaderError(data[st.done + 1])
              THEN LET after == [st EXCEPT !.pc = "done", !.raised = "csv.Error",
                                           !.tx = NoTx]
                   IN  /\ imp' = [imp EXCEPT ![p] = after]
                       /\ log' = Append(log, LogEntry(after, db))
                       /\ UNCHANGED <<db, pks>>
              ELSE LET after == ProcessRow(st, db, pks, st.done + 2, data[st.done + 1])
                   IN  /\ imp' = [imp EXCEPT ![p] = [after.st EXCEPT !.done = @ + 1]]
                       /\ pks' = after.pks
                       /\ db' = Publish(db, after.st.tx)
                       /\ log' = log
    /\ UNCHANGED observed
    /\ UNCHANGED apiVars

\* line 154: batch.asset_count
asset_count_created_only(results) == results.created

asset_count_of(results) == results.created + results.updated

\* lines 153-162: the asset count is written, the transaction commits and
\* the results are returned
Finish(p) ==
    /\ imp[p].pc = "rows"
    /\ LET st == imp[p]
           data == DataLines(st.call.lines)
           asset_count == asset_count_of(st.results)
           tx == [st.tx EXCEPT !.batches =
                     {[b EXCEPT !.asset_count = IF b.pk = st.batch THEN asset_count ELSE @] :
                         b \in @}]
           after == [st EXCEPT !.pc = "done", !.tx = tx]
       IN  /\ st.done = Len(data)
           /\ db' = Overlay(db, tx)
           /\ imp' = [imp EXCEPT ![p] = after]
           /\ log' = Append(log, LogEntry(after, Overlay(db, tx)))
    /\ UNCHANGED <<pks, observed>>
    /\ UNCHANGED apiVars

\* a concurrent reader queries the store outside any transaction
Read ==
    /\ observed' = [store |-> db,
                    inflight |-> {p \in Procs : imp[p].pc = "rows" /\ imp[p].tx.assets # {}}]
    /\ UNCHANGED <<db, pks, imp, log>>
    /\ UNCHANGED apiVars

\* a caller starts an import when the process is not inside one
Import(p, calls) ==
    /\ imp[p].pc \in {"idle", "done"}
    /\ Len(log) < MaxImports
    /\ \E c \in calls : Call(p, c)

Step ==
    \/ \E p \in Procs : Begin(p)
    \/ \E p \in Procs : Row(p)
    \/ \E p \in Procs : Finish(p)

\* imports one after the other
Next ==
    \/ \E p \in Procs : Import(p, Calls(MaxRowsTotal - RowsRead))
    \/ Step

Spec == Init /\ [][Next]_vars

\* imports of files whose rows take every path through the loop body
NextEdge ==
    \/ \E p \in Procs : Import(p, CallsEdge(MaxRowsTotal - RowsRead))
    \/ Step

SpecEdge == Init /\ [][NextEdge]_vars

\* imports of files under every header and mapping
NextMapped ==
    \/ \E p \in Procs : Import(p, CallsMapped(MaxRowsTotal - RowsRead))
    \/ Step

SpecMapped == Init /\ [][NextMapped]_vars

\* imports with a reader querying the store at any moment
NextRead ==
    \/ \E p \in Procs : Import(p, CallsRead(MaxRowsTotal - RowsRead))
    \/ Step
    \/ Read

SpecRead == Init /\ [][NextRead]_vars

\* imports of files whose rows fail the checks of the loop body
NextOrder ==
    \/ \E p \in Procs : Import(p, CallsOrder(MaxRowsTotal - RowsRead))
    \/ Step

SpecOrder == Init /\ [][NextOrder]_vars

(***************************************************************************)
(* Concurrent imports.  Two processes call import_assets_from_csv on a     *)
(* store at read-committed isolation: a query sees the committed rows and  *)
(* the rows of its own transaction; an insert or update of a row waits for *)
(* the open transaction that wrote a row of the same unique key, and an    *)
(* insert of a key that is committed raises IntegrityError.  The unique    *)
(* keys are AssetType.name and Asset (project, asset_id).                  *)
(***************************************************************************)
Writers == {1, 2}

InitConc ==
    LET seeded == seed_asset_types({}, 1)
    IN  /\ db = [EmptyStore EXCEPT !.types = seeded.types]
        /\ pks = [asset |-> 1, type |-> seeded.pk, batch |-> 1]
        /\ imp = [p \in Writers |-> Idle]
        /\ observed = [store |-> db, inflight |-> {}]
        /\ log = << >>
        /\ ApiIdle

\* the imports that have been called
Started == Len(log) + Cardinality({p \in DOMAIN imp : imp[p].pc \in {"begin", "rows"}})

\* the data rows of the calls made so far
RowsStarted ==
    LET n == Cardinality(DOMAIN imp)
        len(p) == IF imp[p].pc \in {"begin", "rows"}
                  THEN Len(DataLines(imp[p].call.lines)) ELSE 0
        sum[i \in 0..n] == IF i = 0 THEN 0 ELSE sum[i - 1] + len(i)
    IN  RowsRead + sum[n]

\* the loop of process p has a row to read
HasRow(p) ==
    /\ imp[p].pc = "rows"
    /\ imp[p].done < Len(DataLines(imp[p].call.lines))

\* the unique keys of the rows the open transaction of q has written
HeldTypeNames(q) == {t.name : t \in imp[q].tx.types}
HeldAssetKeys(q) == {<<a.project, a.asset_id>> : a \in imp[q].tx.assets}

\* what the next row of p asks of the store, from the loop body as it runs
\* when no other transaction is in its way: whether it queries or writes the
\* store at all, the names of the asset types it inserts (line 110), the
\* (project, asset_id) it upserts (lines 125-136), and whether one of the
\* names is already committed.  AssetType.name is unique (tests.py 125-128),
\* and the cache of line 58 was read before the transaction began.
NeedOf(st, after) ==
    [touches |-> after.tx # st.tx \/ Len(after.results.assets) > Len(st.results.assets),
     types |-> {t.name : t \in after.tx.types \ st.tx.types},
     assets |-> IF Len(after.results.assets) > Len(st.results.assets)
                THEN {<<st.project, after.results.assets[Len(after.results.assets)].asset_id>>}
                ELSE {},
     taken |-> \E t \in db.types : \E u \in after.tx.types \ st.tx.types : t.name = u.name]

Need(p) ==
    NeedOf(imp[p], ProcessRow(imp[p], db, pks, imp[p].done + 2, NextCells(p)).st)

\* the open transactions whose locks a row with these needs waits for
WaitsFor(p, need) ==
    {q \in DOMAIN imp \ {p} :
        /\ imp[q].pc = "rows"
        /\ \/ need.types \cap HeldTypeNames(q) # {}
           \/ need.assets \cap HeldAssetKeys(q) # {}}

\* the next row of p is a statement waiting for a lock
Waiting(p, need) ==
    /\ ~ReaderError(NextCells(p))
    /\ ~imp[p].aborted
    /\ need.touches
    /\ ~need.taken
    /\ WaitsFor(p, need) # {}

\* the next row of p runs as it does alone: it is read with an error, or
\* it fails validation, or the store lets its statements through
RunsAlone(p, need) ==
    \/ ReaderError(NextCells(p))
    \/ ~need.touches
    \/ ~imp[p].aborted /\ ~need.taken /\ WaitsFor(p, need) = {}

\* an error of the store raised by a statement outside a savepoint: the
\* except clause of line 150 records it, and the transaction either goes on
\* or is left aborted by the backend (every later statement then fails)
StoreError(p, msg, aborts) ==
    LET st == imp[p]
        after == [RowError(st, st.done + 2, msg) EXCEPT !.done = @ + 1]
    IN  /\ \E a \in aborts : imp' = [imp EXCEPT ![p] = [after EXCEPT !.aborted = a]]
        /\ UNCHANGED <<db, pks, observed, log>>
        /\ UNCHANGED apiVars

\* lines 82-151 with other transactions open: a row that has to wait for a
\* lock cannot step
RowWith(p, need) ==
    IF RunsAlone(p, need)
    THEN Row(p)
    ELSE IF imp[p].aborted
    THEN StoreError(p, "InternalError", {TRUE})
    ELSE /\ need.taken
         /\ StoreError(p, "IntegrityError", BOOLEAN)

RowConc(p) ==
    /\ HasRow(p)
    /\ RowWith(p, Need(p))

\* two statements wait for each other: the store ends one of them with an
\* error.  update_or_create runs in a savepoint, so the transaction goes on
\* after an error of the upsert; the insert of line 110 has no savepoint
WaitsBack(q, other, p) ==
    Waiting(q, other) /\ p \in WaitsFor(q, other)

DeadlockWith(p, need) ==
    /\ Waiting(p, need)
    /\ \E q \in WaitsFor(p, need) : HasRow(q) /\ WaitsBack(q, Need(q), p)
    /\ IF \E q \in WaitsFor(p, need) : need.types \cap HeldTypeNames(q) # {}
       THEN StoreError(p, "OperationalError", BOOLEAN)
       ELSE StoreError(p, "OperationalError", {FALSE})

Deadlock(p) ==
    /\ HasRow(p)
    /\ DeadlockWith(p, Need(p))

\* lines 153-162 with other transactions open: in an aborted transaction
\* batch.save() raises out of the atomic block, which rolls back
FinishConc(p) ==
    /\ imp[p].pc = "rows"
    /\ IF imp[p].aborted
       THEN LET after == [imp[p] EXCEPT !.pc = "done", !.raised = "InternalError",
                                        !.tx = NoTx]
            IN  /\ imp[p].done = Len(DataLines(imp[p].call.lines))
                /\ imp' = [imp EXCEPT ![p] = after]
                /\ log' = Append(log, LogEntry(after, db))
                /\ UNCHANGED <<db, pks, observed>>
                /\ UNCHANGED apiVars
       ELSE Finish(p)

ImportConc(p, calls) ==
    /\ imp[p].pc \in {"idle", "done"}
    /\ Started < MaxImports
    /\ \E c \in calls : Call(p, c)

NextConc ==
    \/ \E p \in Writers : ImportConc(p, CallsConc(MaxRowsTotal - RowsStarted))
    \/ \E p \in Writers : Begin(p)
    \/ \E p \in Writers : RowConc(p)
    \/ \E p \in Writers : Deadlock(p)
    \/ \E p \in Writers : FinishConc(p)

SpecConc == InitConc /\ [][NextConc]_vars

(***************************************************************************)
(* Calls of the validators and of the permission class.  DEBUG is the      *)
(* setting of the process and HAS_MAGIC whether `import magic` succeeded   *)
(* when validators.py was loaded.                                          *)
(***************************************************************************)
InitGate ==
    LET seeded == seed_asset_types({}, 1)
    IN  /\ db = [EmptyStore EXCEPT !.types = seeded.types]
        /\ pks = [asset |-> 1, type |-> seeded.pk, batch |-> 1]
        /\ imp = [p \in Procs |-> Idle]
        /\ observed = [store |-> db, inflight |-> {}]
        /\ log = << >>
        /\ \E DEBUG \in BOOLEAN, HAS_MAGIC \in BOOLEAN : gate = NoGate(DEBUG, HAS_MAGIC)
        /\ CoreIdle

\* PDFFileValidator(max_size)(file)
ValidatePdf ==
    /\ gate.op = ""
    /\ \E file \in Files, max_size \in MaxSizeArgs :
          gate' = [gate EXCEPT
                      !.op = "PDFFileValidator", !.file = file, !.max_size = max_size,
                      !.user = "None",
                      !.answer = PDFFileValidator(PDF_init(max_size), file, gate.HAS_MAGIC)]
    /\ UNCHANGED importVars
    /\ UNCHANGED <<sheets, calib, adjustments, call>>

\* ImageFileValidator(max_size)(file)
ValidateImage ==
    /\ gate.op = ""
    /\ \E file \in Files, max_size \in MaxSizeArgs :
          gate' = [gate EXCEPT
                      !.op = "ImageFileValidator", !.file = file, !.max_size = max_size,
                      !.user = "None",
                      !.answer = ImageFileValidator(Image_init(max_size), file,
                                                    gate.HAS_MAGIC)]
    /\ UNCHANGED importVars
    /\ UNCHANGED <<sheets, calib, adjustments, call>>

\* IsAuthenticatedOrDebug().has_permission(request, view)
CheckPermission ==
    /\ gate.op = ""
    /\ \E user \in Users :
          gate' = [gate EXCEPT
                      !.op = "has_permission", !.user = user,
                      !.file = FileOf(<< >>, 0, Content_Empty, FALSE), !.max_size = 0,
                      !.answer = has_permission(gate.DEBUG, user)]
    /\ UNCHANGED importVars
    /\ UNCHANGED <<sheets, calib, adjustments, call>>

\* the caller has taken the answer: the form field is cleaned, the request is
\* dispatched or refused
Answered ==
    /\ gate.op # ""
    /\ gate' = NoGate(gate.DEBUG, gate.HAS_MAGIC)
    /\ UNCHANGED importVars
    /\ UNCHANGED <<sheets, calib, adjustments, call>>

NextGate ==
    \/ ValidatePdf
    \/ ValidateImage
    \/ CheckPermission
    \/ Answered

SpecGate == InitGate /\ [][NextGate]_vars

(***************************************************************************)
(* Requests to split a sheet.                                               *)
(***************************************************************************)
\* SplitSheetAPITests.test_split: one project with one sheet of a PDF
InitSplit ==
    LET seeded == seed_asset_types({}, 1)
    IN  /\ db = [EmptyStore EXCEPT !.types = seeded.types]
        /\ pks = [asset |-> 1, type |-> seeded.pk, batch |-> 1]
        /\ imp = [p \in Procs |-> Idle]
        /\ observed = [store |-> db, inflight |-> {}]
        /\ log = << >>
        /\ gate = NoGate(FALSE, FALSE)
        /\ sheets = <<NewSheet(1, "sheets/test.pdf")>>
        /\ calib = NewProject
        /\ adjustments = << >>
        /\ call = NoCall

\* POST /api/sheets/<pk>/split/ with the body {p1, p2}
Split ==
    /\ \E pk \in DOMAIN sheets, p1 \in SplitPoints, p2 \in SplitPoints :
          LET can_create == Len(sheets) < MaxSheets
              done == split(sheets, pk, Len(sheets) + 1, p1, p2)
          IN  /\ done.status = 200 => can_create
              /\ sheets' = done.sheets
              /\ call' = [op |-> "split", sheet |-> pk, p1 |-> p1, p2 |-> p2,
                          status |-> done.status, new_sheet |-> done.new_sheet]
    /\ UNCHANGED importVars
    /\ UNCHANGED <<gate, calib, adjustments>>

NextSplit == Split

SpecSplit == InitSplit /\ [][NextSplit]_vars

(***************************************************************************)
(* Requests to calibrate the project and to adjust its asset.               *)
(***************************************************************************)
\* AdjustAssetAPITests.setUp: a new project with the asset ADJ1 at (10, 20)
InitApi ==
    LET seeded == seed_asset_types({}, 1)
        asset == NewAsset(1, 1, <<"A", "D", "J", "1">>,
                          [asset_type |-> 1, name |-> << >>,
                           original_x |-> Normalize(10, 0), original_y |-> Normalize(20, 0),
                           metadata |-> {}, import_batch |-> 0])
    IN  /\ db = [EmptyStore EXCEPT !.types = seeded.types, !.assets = {asset}]
        /\ pks = [asset |-> 2, type |-> seeded.pk, batch |-> 1]
        /\ imp = [p \in Procs |-> Idle]
        /\ observed = [store |-> db, inflight |-> {}]
        /\ log = << >>
        /\ gate = NoGate(FALSE, FALSE)
        /\ CoreIdle

\* POST /api/projects/<pk>/calibrate/
Calibrate ==
    /\ \E payload \in CalibrationPayloads :
          LET done == calibrate(calib, payload)
          IN  /\ calib' = done.project
              /\ call' = [op |-> "calibrate", payload |-> payload, status |-> done.status]
    /\ UNCHANGED importVars
    /\ UNCHANGED <<gate, sheets, adjustments>>

\* POST /api/assets/<pk>/adjust/
AdjustWith(payloads) ==
    /\ \E asset \in db.assets, payload \in payloads, store_fails \in BOOLEAN :
          LET done == adjust(asset, adjustments, payload, store_fails)
          IN  /\ done.status = 200 => Len(adjustments) < MaxAdjustments
              /\ db' = [db EXCEPT !.assets = (@ \ {asset}) \cup {done.asset}]
              /\ adjustments' = done.logs
              /\ call' = [op |-> "adjust", asset |-> asset.pk, payload |-> payload,
                          status |-> done.status]
    /\ UNCHANGED <<pks, imp, observed, log>>
    /\ UNCHANGED <<gate, sheets, calib>>

Adjust == AdjustWith(AdjustPayloads)

NextApi ==
    \/ Calibrate
    \/ Adjust

SpecApi == InitApi /\ [][NextApi]_vars

\* the calls that import and re-import two assets, one row a file
CallsReimport(n) == CallsRows({Row_A1, Row_A1b, Row_A2}, IF n > 1 THEN 1 ELSE n)

\* the bodies of the adjust requests made between imports: a move to
\* (13, 24) and a request without coordinates
ReimportPayloads ==
    {[x |-> JsonNumber(13, 0), y |-> JsonNumber(24, 0), notes |-> "moved"],
     [notes |-> "no coords"]}

\* an adjust request made while no import is running
AdjustImported ==
    /\ \A p \in Procs : imp[p].pc \in {"idle", "done"}
    /\ AdjustWith(ReimportPayloads)

\* imports one after the other, with imported assets adjusted in between
NextReimport ==
    \/ \E p \in Procs : Import(p, CallsReimport(MaxRowsTotal - RowsRead))
    \/ Step
    \/ AdjustImported

SpecReimport == Init /\ [][NextReimport]_vars

\* the AssetType rows a database can hold before migration 0011: rows of the
\* three names with other shapes, colours and sizes, a row whose name differs
\* in case, and a row of another name
ExistingTypes ==
    {[pk |-> 1, name |-> SeedDefaults[1].name, icon_shape |-> "diamond",
      color |-> "#123456", size |-> 35],
     [pk |-> 2, name |-> SeedDefaults[2].name, icon_shape |-> "circle",
      color |-> "#FF0000", size |-> 20],
     [pk |-> 3, name |-> SeedDefaults[3].name, icon_shape |-> "star",
      color |-> "#00AA00", size |-> 10],
     [pk |-> 4, name |-> <<"v", "s", "l">>, icon_shape |-> "square",
      color |-> "#0066FF", size |-> 20],
     NewAssetType(5, <<"V", "a", "l", "v", "e">>)}

\* a database with some of these rows, and no migration run
InitSeed ==
    /\ \E types \in SUBSET ExistingTypes : db = [EmptyStore EXCEPT !.types = types]
    /\ pks = [asset |-> 1, type |-> Cardinality(ExistingTypes) + 1, batch |-> 1]
    /\ imp = [p \in Procs |-> Idle]
    /\ observed = [store |-> EmptyStore, inflight |-> {}]
    /\ log = << >>
    /\ ApiIdle

\* the operations of the migration run so far
MigrationsRun == IF call.op = "" THEN << >> ELSE call.ops

\* migrate: RunPython runs seed_asset_types
RunSeed ==
    /\ Len(MigrationsRun) < MaxMigrations
    /\ LET seeded == seed_asset_types(db.types, pks.type)
       IN  /\ db' = [db EXCEPT !.types = seeded.types]
           /\ pks' = [pks EXCEPT !.type = seeded.pk]
    /\ call' = [op |-> "seed_asset_types", before |-> db.types,
                ops |-> Append(MigrationsRun, "seed_asset_types")]
    /\ UNCHANGED <<imp, observed, log>>
    /\ UNCHANGED <<gate, sheets, calib, adjustments>>

\* migrate backwards: RunPython runs remove_asset_types
RunRemove ==
    /\ Len(MigrationsRun) < MaxMigrations
    /\ db' = [db EXCEPT !.types = remove_asset_types(db.types)]
    /\ call' = [op |-> "remove_asset_types", before |-> db.types,
                ops |-> Append(MigrationsRun, "remove_asset_types")]
    /\ UNCHANGED <<pks, imp, observed, log>>
    /\ UNCHANGED <<gate, sheets, calib, adjustments>>

NextSeed ==
    \/ RunSeed
    \/ RunRemove

SpecSeed == InitSeed /\ [][NextSeed]_vars


(***************************************************************************)
(* Properties.                                                              *)
(***************************************************************************)
\* the step is the call of import_assets_from_csv by process p
IsCallStep(p) ==
    /\ imp[p].pc \in {"idle", "done"}
    /\ <<imp[p], log>>' # <<imp[p], log>>

\* the step is one iteration of the loop over the rows by process p
IsRowStep(p) ==
    /\ imp[p].pc = "rows"
    /\ imp'[p].done = imp[p].done + 1

\* the step is the return of the call of process p
IsFinishStep(p) ==
    /\ imp[p].pc = "rows"
    /\ imp'[p].pc = "done"
    /\ imp'[p].done = imp[p].done

\* the roles the file has to bring a column for
RequiredRoles == {"asset_id", "asset_type", "x", "y"}

\* the file has a header line, and the header lacks the column the merged
\* mapping gives to one of the required roles
LacksRequiredColumn(c) ==
    /\ c.lines # << >>
    /\ \E role \in RequiredRoles :
          MergeMapping(c.column_mapping)[role] \notin Range(c.lines[1])

\* C1: a call without a fixed asset type whose file has a header that lacks
\* the column of a required role raises ValueError, and the call leaves the
\* store as it was: no transaction is begun, no batch, asset or asset type
\* is written.
C1_MissingColumnRejected ==
    [][\A p \in Procs :
          (/\ IsCallStep(p)
           /\ imp'[p].call.fixed_asset_type = NoneCell
           /\ LacksRequiredColumn(imp'[p].call))
          => (/\ imp'[p].pc = "done"
              /\ imp'[p].raised = "ValueError"
              /\ imp'[p].tx = NoTx
              /\ db' = db
              /\ pks' = pks)]_vars

\* a call is rejected for a missing column while the store holds assets
C1_Witness ==
    \E p \in Procs :
        /\ imp[p].pc = "done"
        /\ imp[p].raised = "ValueError"
        /\ imp[p].call.fixed_asset_type = NoneCell
        /\ LacksRequiredColumn(imp[p].call)
        /\ "y" \in Range(imp[p].missing)
        /\ db.assets # {}
        /\ db.batches # {}


\* the header of the file of a call and its merged mapping
HeaderOf(c) == c.lines[1]
MappingOf(c) == MergeMapping(c.column_mapping)

\* the row has one cell for each column of the header
WholeRow(c, cells) == Len(cells) = Len(HeaderOf(c))

\* the cell of a whole row under the column of a role
CellOf(c, cells, role) ==
    cells[CHOOSE i \in 1..Len(HeaderOf(c)) : HeaderOf(c)[i] = MappingOf(c)[role]]

\* the row fails one of the checks of the loop body: no asset id, no asset
\* type, or a coordinate float() does not parse
FailsValidation(c, cells) ==
    \/ Strip(CellOf(c, cells, "asset_id")) = EmptyStr
    \/ Strip(CellOf(c, cells, "asset_type")) = EmptyStr
    \/ float(CellOf(c, cells, "x")) = FloatValueError
    \/ float(CellOf(c, cells, "y")) = FloatValueError

VisibleStores == {db} \cup {Overlay(db, imp[p].tx) : p \in Procs}

\* C3: whatever was imported, no store holds two assets with the same
\* project and asset id.
C3_UniqueAssetId ==
    \A store \in VisibleStores :
        \A a, b \in store.assets :
            (a.project = b.project /\ a.asset_id = b.asset_id) => a = b

\* a file that names an asset id twice has been imported into one project
\* (one created, one updated) and the same id into the other project
C3_Witness ==
    /\ Len(log) = 2
    /\ \E i \in 1..2 : log[i].results.created = 1 /\ log[i].results.updated = 1
    /\ \E a, b \in db.assets : a.asset_id = b.asset_id /\ a.project # b.project
    /\ Cardinality(db.assets) = 2


\* the data row passes the checks of the loop body
ValidRow(c, cells) == WholeRow(c, cells) /\ ~FailsValidation(c, cells)

\* the positions of the valid data rows of the file of a call, their number
\* N, and the asset ids they carry
ValidRowsOf(c) ==
    {i \in 1..Len(DataLines(c.lines)) : ValidRow(c, DataLines(c.lines)[i])}

ValidCount(c) == Cardinality(ValidRowsOf(c))

ValidIdsOf(c) ==
    {Strip(CellOf(c, DataLines(c.lines)[i], "asset_id")) : i \in ValidRowsOf(c)}

\* entries i and i+1 of the log are two runs of the same call that returned
SameCallTwice(i) ==
    /\ i + 1 <= Len(log)
    /\ log[i].call = log[i + 1].call
    /\ log[i].raised = ""
    /\ log[i + 1].raised = ""

\* C4 as stated: the first of two runs of the same file returns created = N
\* and updated = 0, the second created = 0 and updated = N, and the asset
\* count of the project is the same after both.
C4_AsStated ==
    \A i \in 1..Len(log) :
        SameCallTwice(i) =>
            LET n == ValidCount(log[i].call)
            IN  /\ log[i].results.created = n
                /\ log[i].results.updated = 0
                /\ log[i + 1].results.created = 0
                /\ log[i + 1].results.updated = n
                /\ log[i + 1].asset_count = log[i].asset_count

\* C4 amended: the first run creates one asset for each distinct asset id of
\* its valid rows that the project did not hold, and updates for the other
\* valid rows; the second run returns created = 0 and updated = N, and the
\* asset count of the project is the same after both.
C4_Reimport ==
    \A i \in 1..Len(log) :
        SameCallTwice(i) =>
            LET n == ValidCount(log[i].call)
                new == ValidIdsOf(log[i].call) \ log[i].ids_before
            IN  /\ log[i].results.created = Cardinality(new)
                /\ log[i].results.updated = n - Cardinality(new)
                /\ log[i + 1].results.created = 0
                /\ log[i + 1].results.updated = n
                /\ log[i + 1].asset_count = log[i].asset_count

\* a file of two valid rows with different new ids was imported twice
C4_Witness ==
    /\ SameCallTwice(1)
    /\ ValidCount(log[1].call) = 2
    /\ log[1].results.created = 2
    /\ log[2].results.updated = 2
    /\ log[2].asset_count = 2


\* C5: what a reader has queried is never a part of an import.  Every batch
\* it saw belongs to a call that has returned and carries that call's final
\* asset count, every asset that call upserted is there with it, and every
\* asset it saw refers to a batch and an asset type it saw too.
C5_ReaderSeesWholeImports ==
    LET seen == observed.store
    IN  /\ \A b \in seen.batches :
              \E i \in 1..Len(log) :
                  /\ log[i].batch = b.pk
                  /\ log[i].raised = ""
                  /\ b.asset_count = log[i].results.created + log[i].results.updated
                  /\ \A k \in 1..Len(log[i].results.assets) :
                        \E a \in seen.assets :
                            /\ a.project = b.project
                            /\ a.asset_id = log[i].results.assets[k].asset_id
        /\ \A a \in seen.assets :
              /\ a.import_batch \in Pks(seen.batches)
              /\ a.asset_type \in Pks(seen.types)

\* the reader queried the store while a second import had upserted assets
\* in its open transaction, and saw the first import only
C5_Witness ==
    /\ observed.inflight # {}
    /\ Cardinality(observed.store.batches) = 1
    /\ observed.store.assets # {}
    /\ \E p \in observed.inflight :
          /\ imp[p].pc = "rows"
          /\ imp[p].batch \notin Pks(observed.store.batches)


\* the header of the file has the column of the role
HasColumn(c, role) ==
    /\ c.lines # << >>
    /\ MappingOf(c)[role] \in Range(HeaderOf(c))

\* C6 as stated: a call that supplies a fixed asset type and whose header
\* has the asset id and coordinate columns is not rejected, records no
\* missing asset type, and gives every asset of its batch the asset type of
\* the fixed name.
C6_AsStated ==
    \A p \in Procs :
        (/\ imp[p].pc = "done"
         /\ imp[p].call.fixed_asset_type # NoneCell
         /\ \A role \in {"asset_id", "x", "y"} : HasColumn(imp[p].call, role))
        => /\ imp[p].raised = ""
           /\ \A k \in 1..Len(imp[p].results.errors) :
                 imp[p].results.errors[k].msg # "Missing asset_type"
           /\ \A a \in db.assets :
                 a.import_batch = imp[p].batch =>
                    \E t \in db.types :
                        /\ t.pk = a.asset_type
                        /\ t.name = imp[p].call.fixed_asset_type

\* the data rows the loop of process p has gone through
RowsDone(p) == SubSeq(DataLines(imp[p].call.lines), 1, imp[p].done)

\* the text does not parse as a finite number
NotFiniteNumber(cell) == ~IsFinite(float(cell))

\* C7 as stated: every original coordinate in a store is finite, and every
\* whole row with an asset id and an asset type whose x or y is not a finite
\* number has an invalid-coordinates error under its row number.
C7_AsStated ==
    /\ \A store \in VisibleStores :
          \A a \in store.assets : IsFinite(a.original_x) /\ IsFinite(a.original_y)
    /\ \A p \in Procs :
          imp[p].pc \in {"rows", "done"} =>
             \A k \in 1..Len(RowsDone(p)) :
                LET c == imp[p].call
                    cells == RowsDone(p)[k]
                IN  (/\ WholeRow(c, cells)
                     /\ Strip(CellOf(c, cells, "asset_id")) # EmptyStr
                     /\ Strip(CellOf(c, cells, "asset_type")) # EmptyStr
                     /\ \/ NotFiniteNumber(CellOf(c, cells, "x"))
                        \/ NotFiniteNumber(CellOf(c, cells, "y")))
                    => \E e \in Range(imp[p].results.errors) :
                          e = [row |-> k + 1, msg |-> "Invalid coordinates"]


\* the store process p queries: the committed one with its own writes
ViewOf(p) == Overlay(db, imp[p].tx)

\* row k is the last of the rows process p has gone through that is valid
\* and carries its asset id
LastValidRowOfId(p, k) ==
    LET c == imp[p].call
        rows == RowsDone(p)
    IN  /\ ValidRow(c, rows[k])
        /\ \A j \in (k + 1)..Len(rows) :
              ValidRow(c, rows[j]) =>
                 Strip(CellOf(c, rows[j], "asset_id")) # Strip(CellOf(c, rows[k], "asset_id"))

\* C8: asset types are resolved without regard to case.  No store holds two
\* asset types whose names are equal after lower-casing, and the asset of
\* every valid row refers to the asset type whose lower-cased name is the
\* lower-cased type name of the row.
C8_CaseInsensitiveTypes ==
    /\ \A store \in VisibleStores :
          \A t, u \in store.types : Lower(t.name) = Lower(u.name) => t = u
    /\ \A p \in Procs :
          (imp[p].pc \in {"rows", "done"} /\ imp[p].raised = "") =>
             \A k \in 1..Len(RowsDone(p)) :
                LastValidRowOfId(p, k) =>
                   LET c == imp[p].call
                       cells == RowsDone(p)[k]
                   IN  \E a \in ViewOf(p).assets :
                          /\ a.project = imp[p].project
                          /\ a.asset_id = Strip(CellOf(c, cells, "asset_id"))
                          /\ \E t \in ViewOf(p).types :
                                /\ t.pk = a.asset_type
                                /\ Lower(t.name) =
                                      Lower(Strip(CellOf(c, cells, "asset_type")))

\* an import of rows typed Valve, VALVE and cctv has returned: it created
\* one asset type, and the cctv row took the seeded CCTV type
C8_Witness ==
    \E p \in Procs :
        /\ imp[p].pc = "done"
        /\ imp[p].results.created + imp[p].results.updated = 3
        /\ Cardinality(imp[p].tx.types) = 1
        /\ Cardinality(db.types) = Len(SeedDefaults) + 1
        /\ \E a \in db.assets : \E t \in db.types :
              /\ t.pk = a.asset_type
              /\ t.name = SeedDefaults[3].name
              /\ a.import_batch = imp[p].batch
        /\ \E k \in 1..Len(RowsDone(p)) :
              Strip(CellOf(imp[p].call, RowsDone(p)[k], "asset_type"))
                 = <<"V", "A", "L", "V", "E">>

\* the pairs of column and cell of a row whose column is the column of no
\* role and whose cell is not empty
ExpectedMetadata(c, cells) ==
    LET header == HeaderOf(c)
        n == IF Len(cells) < Len(header) THEN Len(cells) ELSE Len(header)
    IN  {<<header[i], cells[i]>> :
            i \in {j \in 1..n : /\ header[j] \notin Range(MappingOf(c))
                                /\ cells[j] # EmptyStr}}

\* the loop iteration of process p has upserted an asset
RowUpserted(p) ==
    /\ IsRowStep(p)
    /\ Len(imp'[p].results.assets) = Len(imp[p].results.assets) + 1

\* the asset the loop iteration of process p has upserted
UpsertedAsset(p) ==
    LET entry == imp'[p].results.assets[Len(imp'[p].results.assets)]
    IN  CHOOSE a \in imp'[p].tx.assets :
            a.project = imp[p].project /\ a.asset_id = entry.asset_id

\* C9 as stated: the metadata of the asset of every imported row is exactly
\* the pairs of that row under unmapped columns with non-empty cells.
C9_AsStated ==
    [][\A p \in Procs :
          RowUpserted(p) =>
             UpsertedAsset(p).metadata = ExpectedMetadata(imp[p].call, NextCells(p))]_vars

\* C10: the upsert of a valid row whose asset id the project holds keeps
\* the asset and the asset count, and overwrites its type, name, original
\* coordinates, metadata and batch with those of the row; the metadata is
\* replaced, not merged.
C10_UpdateOverwrites ==
    [][\A p \in Procs :
          IsRowStep(p) =>
             LET c == imp[p].call
                 cells == NextCells(p)
                 held == {a \in ViewOf(p).assets :
                             /\ a.project = imp[p].project
                             /\ a.asset_id = Strip(CellOf(c, cells, "asset_id"))}
             IN  (ValidRow(c, cells) /\ held # {}) =>
                    /\ imp'[p].results.updated = imp[p].results.updated + 1
                    /\ imp'[p].results.created = imp[p].results.created
                    /\ Pks(ViewOf(p).assets)' = Pks(ViewOf(p).assets)
                    /\ \A old \in held :
                          \E new \in imp'[p].tx.assets :
                              /\ new.pk = old.pk
                              /\ new.project = old.project
                              /\ new.asset_id = old.asset_id
                              /\ new.name = Strip(CellOf(c, cells, "name"))
                              /\ new.original_x = float(CellOf(c, cells, "x"))
                              /\ new.original_y = float(CellOf(c, cells, "y"))
                              /\ new.metadata = ExpectedMetadata(c, cells)
                              /\ new.import_batch = imp[p].batch
                              /\ \E t \in ViewOf(p).types' :
                                    /\ t.pk = new.asset_type
                                    /\ Lower(t.name) =
                                          Lower(Strip(CellOf(c, cells, "asset_type")))]_vars

\* a second import has updated an asset of the first: in its transaction the
\* asset has the new batch, other coordinates and no metadata, while the
\* committed asset still has the first batch and its metadata
C10_Witness ==
    \E p \in Procs :
        /\ imp[p].pc = "rows"
        /\ imp[p].results.updated = 1
        /\ \E old \in db.assets : \E new \in imp[p].tx.assets :
              /\ new.pk = old.pk
              /\ old.metadata # {}
              /\ new.metadata = {}
              /\ old.import_batch # imp[p].batch
              /\ new.import_batch = imp[p].batch
              /\ new.original_x # old.original_x
              /\ new.name # old.name

(***************************************************************************)
(* C11: one batch per import.                                               *)
(***************************************************************************)
\* the call of the log entry got past the header check of lines 43-52
PassedHeaderCheck(e) == e.raised \notin {"ValueError", "TypeError"}

\* the call of the log entry returned its results
Returned(e) == e.raised = ""

\* the committed batches the call of the log entry created
BatchesOf(e) == {b \in db.batches : b.pk = e.batch /\ b.project = e.call.project}

ImportsOf(project, asset_id) ==
    {i \in 1..Len(log) :
        /\ log[i].call.project = project
        /\ asset_id \in ValidIdsOf(log[i].call)}

\* the valid rows of the file of a call that carry the asset id
RowsOfId(c, asset_id) ==
    {k \in ValidRowsOf(c) : Strip(CellOf(c, DataLines(c.lines)[k], "asset_id")) = asset_id}

\* the entries of the result of a log entry for the asset id, and those of
\* them that report a creation
UpsertsOf(e, asset_id) ==
    {k \in 1..Len(e.results.assets) : e.results.assets[k].asset_id = asset_id}

CreationsOf(e, asset_id) ==
    {k \in UpsertsOf(e, asset_id) : e.results.assets[k].created}

\* the number of creations of the asset id the imports of a set report
RECURSIVE CreatedBy(_, _)
CreatedBy(E, asset_id) ==
    IF E = {} THEN 0
    ELSE LET i == CHOOSE i \in E : TRUE
         IN  Cardinality(CreationsOf(log[i], asset_id)) + CreatedBy(E \ {i}, asset_id)

\* the asset ids of the rows of the files
AllIds == {<<"A", "1">>, <<"A", "2">>, <<"A", "4">>}

\* C12 as stated: when two or more imports, in any interleaving, have
\* processed files with a valid row of the same asset id for the same
\* project, the store holds one asset of that (project, asset_id), every
\* import returned, every such row ended as an upsert, and exactly one of
\* the upserts was a creation, the others updates.
C12_AsStated ==
    \A project \in 1..2 : \A asset_id \in AllIds :
        LET E == ImportsOf(project, asset_id)
        IN  Cardinality(E) >= 2 =>
               /\ Cardinality({a \in db.assets :
                                  a.project = project /\ a.asset_id = asset_id}) = 1
               /\ \A i \in E :
                     /\ Returned(log[i])
                     /\ Cardinality(UpsertsOf(log[i], asset_id)) =
                           Cardinality(RowsOfId(log[i].call, asset_id))
               /\ CreatedBy(E, asset_id) = 1

(***************************************************************************)
(* C13, C14: the file validators.                                          *)
(***************************************************************************)
\* the size limit of a validator call: its max_size argument, or the default
LimitOf(default) == IF gate.max_size = 0 THEN default ELSE gate.max_size

\* the name ends in .pdf, in any case
NamedPdf(name) ==
    /\ Len(name) >= 4
    /\ name[Len(name) - 3] = "."
    /\ name[Len(name) - 2] \in {"p", "P"}
    /\ name[Len(name) - 1] \in {"d", "D"}
    /\ name[Len(name)] \in {"f", "F"}

\* the content starts with the bytes %PDF-
StartsPdf(header) ==
    /\ Len(header) >= 5
    /\ <<header[1], header[2], header[3], header[4], header[5]>> = <<"%", "P", "D", "F", "-">>

\* C13: PDFFileValidator raises ValidationError for every file larger than
\* max_size (default 50 MB), or whose name does not end in .pdf in any case, or
\* whose content does not start with %PDF-; a genuine PDF within the limit and
\* named *.pdf is accepted, whatever the MIME sniffing does; a file of size
\* exactly max_size is not rejected for its size.
C13_PdfValidator ==
    gate.op = "PDFFileValidator" =>
        LET file == gate.file
            limit == LimitOf(52428800)
        IN  /\ (\/ file.size > limit
                \/ ~NamedPdf(file.name)
                \/ ~StartsPdf(file.header)) => gate.answer = "ValidationError"
            /\ (/\ file.is = "pdf"
                /\ file.size <= limit
                /\ NamedPdf(file.name)) => gate.answer = "ok"
            /\ (/\ file.size = limit
                /\ NamedPdf(file.name)
                /\ StartsPdf(file.header)) => gate.answer = "ok"

\* a PDF of exactly the default limit is accepted with the MIME library
\* installed, and a file one byte over the max_size argument is rejected
C13_Witness ==
    /\ gate.op = "PDFFileValidator"
    /\ gate.HAS_MAGIC
    /\ gate.max_size = 0
    /\ gate.file.size = PDF_max_size
    /\ gate.file.is = "pdf"
    /\ gate.answer = "ok"

\* the extension of a name is one of the five, in any case
ImageExtension(name) ==
    \E e \in {<<"p", "n", "g">>, <<"j", "p", "g">>, <<"j", "p", "e", "g">>, <<"g", "i", "f">>, <<"w", "e", "b", "p">>} :
        /\ Len(name) > Len(e)
        /\ name[Len(name) - Len(e)] = "."
        /\ \A i \in 1..Len(e) :
              LET ch == name[Len(name) - Len(e) + i]
                  capital == [p |-> "P", n |-> "N", g |-> "G", j |-> "J", e |-> "E",
                              i |-> "I", f |-> "F", w |-> "W", b |-> "B"]
              IN  ch = e[i] \/ ch = capital[e[i]]

\* C14 as stated: ImageFileValidator accepts a file exactly when its size is
\* at most max_size (default 5 MB), its extension is one of .png, .jpg, .jpeg,
\* .gif, .webp in any case and its content is a PNG, JPEG, GIF or WebP image,
\* and the answer is the same with and without the MIME library.
C14_AsStated ==
    gate.op = "ImageFileValidator" =>
        LET file == gate.file
            limit == LimitOf(5242880)
        IN  /\ gate.answer = "ok" <=>
                  /\ file.size <= limit
                  /\ ImageExtension(file.name)
                  /\ file.is \in {"png", "jpeg", "gif", "webp"}
            /\ gate.answer = ImageFileValidator(Image_init(gate.max_size), file, ~gate.HAS_MAGIC)

(***************************************************************************)
(* C15: the permission class.                                               *)
(***************************************************************************)
\* C15: IsAuthenticatedOrDebug grants a request exactly when DEBUG is on or
\* the request's user is authenticated: with DEBUG off no absent or anonymous
\* user is granted, with DEBUG on every request is.
C15_Gate ==
    gate.op = "has_permission" =>
        /\ Granted(gate.answer) <=> (gate.DEBUG \/ gate.user = "User")
        /\ (~gate.DEBUG /\ gate.user \in {"None", "AnonymousUser"}) => ~Granted(gate.answer)
        /\ gate.DEBUG => Granted(gate.answer)

\* with DEBUG off a request without a user is refused
C15_Witness ==
    /\ gate.op = "has_permission"
    /\ ~gate.DEBUG
    /\ gate.user = "None"
    /\ ~Granted(gate.answer)

(***************************************************************************)
(* C16: splits of a sheet and of its descendants.                          *)
(***************************************************************************)
\* s is a prefix of t
IsPrefix(s, t) == Len(s) <= Len(t) /\ SubSeq(t, 1, Len(s)) = s

\* the step is an accepted split request
IsSplitStep == call'.op = "split" /\ call'.status = 200 /\ sheets' # sheets

\* C16: an accepted split(sheet, p1, p2) appends exactly one record
\* {p1, p2, flipped=false} to the original sheet's cut list and creates one new
\* sheet whose cut list is the original's pre-split list followed by
\* {p1, p2, flipped=true}; over any sequence of splits every sheet's cut list
\* only grows by appending, and every earlier cut of the split sheet is kept,
\* in order, in both resulting sheets.
C16_SplitSymmetry ==
    [][/\ \A s \in DOMAIN sheets :
            /\ s \in DOMAIN sheets'
            /\ IsPrefix(sheets[s].cuts_json, sheets'[s].cuts_json)
       /\ IsSplitStep =>
            LET original == call'.sheet
                new == call'.new_sheet
                p1 == [x |-> call'.p1.x, y |-> call'.p1.y]
                p2 == [x |-> call'.p2.x, y |-> call'.p2.y]
                prior == sheets[original].cuts_json
            IN  /\ sheets'[original].cuts_json
                     = prior \o <<[p1 |-> p1, p2 |-> p2, flipped |-> FALSE]>>
                /\ DOMAIN sheets' = DOMAIN sheets \cup {new}
                /\ new \notin DOMAIN sheets
                /\ sheets'[new].cuts_json
                     = prior \o <<[p1 |-> p1, p2 |-> p2, flipped |-> TRUE]>>
                /\ IsPrefix(prior, sheets'[original].cuts_json)
                /\ IsPrefix(prior, sheets'[new].cuts_json)
                /\ \A s \in DOMAIN sheets \ {original} : sheets'[s] = sheets[s]
       /\ (call'.op = "split" /\ call'.status # 200) => sheets' = sheets]_vars

\* a sheet created by a split has been split again: its list holds the
\* flipped cut it was created with, then the unflipped cut of its own split
C16_Witness ==
    /\ call.op = "split"
    /\ call.status = 200
    /\ call.new_sheet = 3
    /\ call.sheet = 2
    /\ Len(sheets[2].cuts_json) = 2
    /\ sheets[2].cuts_json[1].flipped
    /\ ~sheets[2].cuts_json[2].flipped
    /\ Len(sheets[3].cuts_json) = 2
    /\ sheets[3].cuts_json[1] = sheets[2].cuts_json[1]

(***************************************************************************)
(* C17, C18, C20: calibration calls.                                       *)
(***************************************************************************)
\* the value is a string that is no finite number: non-numeric, infinite or NaN
BadNumber(value) ==
    /\ value.json = "string"
    /\ value.text \in {<<"a", "b", "c">>, <<"i", "n", "f">>, <<"n", "a", "n">>}

\* the request carries a bad number or an unrecognized coord_unit
BadCalibration(payload) ==
    \/ \E f \in DOMAIN payload \ {"coord_unit", "ref_asset_id"} : BadNumber(payload[f])
    \/ /\ "coord_unit" \in DOMAIN payload
       /\ payload.coord_unit \notin {"meters", "degrees", "gda94_geo", "gda94_mga"}

\* the request sets the scale from a pair with realDistance > 0
SetsScale(payload) ==
    /\ {"pixel_distance", "real_distance"} \subseteq DOMAIN payload
    /\ ~BadCalibration(payload)
    /\ payload.real_distance.num.m > 0

\* C17: scale_calibrated is false on a new project, becomes true when a scale
\* is set from a (pixelDistance, realDistance > 0) pair, and from then on
\* stays true under every later calibration call, accepted or rejected.
C17_ScaleCalibratedMonotonic ==
    /\ ~calib.scale_calibrated
    /\ [][/\ calib.scale_calibrated => calib'.scale_calibrated
          /\ (call'.op = "calibrate" /\ SetsScale(call'.payload))
                => (call'.status = 200 /\ calib'.scale_calibrated)
          /\ (~calib.scale_calibrated /\ calib'.scale_calibrated)
                => (call'.op = "calibrate" /\ SetsScale(call'.payload))]_vars

\* the scale is calibrated and a later call, of another operation and
\* rejected, has left it so
C17_Witness ==
    /\ calib.scale_calibrated
    /\ call.op = "calibrate"
    /\ call.status = 400
    /\ call.payload = [coord_unit |-> "invalid", origin_x |-> JsonNumber(100, 0)]
    /\ calib.canvas_rotation = Normalize(45, 0)

\* C18 as stated: pixels_per_meter is greater than 0 in every reachable
\* state: setScale never stores a zero or negative scale for an accepted pair.
C18_AsStated ==
    /\ calib.pixels_per_meter.kind = "fin"
    /\ calib.pixels_per_meter.m > 0

(***************************************************************************)
(* C19, C20: adjustments of an asset.                                      *)
(***************************************************************************)
\* the asset of the primary key in a store
AssetOf(store, pk) == CHOOSE a \in store.assets : a.pk = pk

\* the number a coordinate of an accepted request stands for
NumberOf(value) ==
    IF value.json = "number" THEN value.num
    ELSE CASE value.text = <<"1", "0", ".", "0">> -> [kind |-> "fin", m |-> 10, e |-> 0]
           [] value.text = <<"2", "0">> -> [kind |-> "fin", m |-> 20, e |-> 0]

\* the position of an asset: adjusted when is_adjusted, else original
PositionOf(a) ==
    IF a.is_adjusted THEN <<a.adjusted_x, a.adjusted_y>> ELSE <<a.original_x, a.original_y>>

\* the logs of one asset, in order
LogsOf(logs, pk) == SelectSeq(logs, LAMBDA l : l.asset = pk)

\* C19: an accepted adjust(asset, x, y, notes) records from = the asset's
\* position before the mutation (the adjusted one when the asset was already
\* adjusted, else the original), sets adjusted = (x, y) and is_adjusted,
\* and appends one AdjustmentLog; a call that is not accepted changes
\* neither the asset nor the logs; afterwards the asset's current position
\* is (x, y), and each log's from is the to of the asset's previous log.
C19_Adjust ==
    [][call'.op = "adjust" =>
          LET old == AssetOf(db, call'.asset)
              new == AssetOf(db', call'.asset)
          IN  /\ call'.status = 200 =>
                    LET x == NumberOf(call'.payload.x)
                        y == NumberOf(call'.payload.y)
                        entry == adjustments'[Len(adjustments')]
                    IN  /\ Len(adjustments') = Len(adjustments) + 1
                        /\ SubSeq(adjustments', 1, Len(adjustments)) = adjustments
                        /\ entry.asset = old.pk
                        /\ <<entry.from_x, entry.from_y>> = PositionOf(old)
                        /\ <<entry.to_x, entry.to_y>> = <<x, y>>
                        /\ entry.notes = call'.payload.notes
                        /\ new = [old EXCEPT !.adjusted_x = x, !.adjusted_y = y,
                                             !.is_adjusted = TRUE]
                        /\ PositionOf(new) = <<x, y>>
                        /\ db'.assets \ {new} = db.assets \ {old}
              /\ call'.status # 200 => (db' = db /\ adjustments' = adjustments)
              /\ \A pk \in {a.pk : a \in db'.assets} :
                    LET mine == LogsOf(adjustments', pk)
                    IN  \A i \in 2..Len(mine) :
                            <<mine[i].from_x, mine[i].from_y>>
                                = <<mine[i - 1].to_x, mine[i - 1].to_y>>]_vars

\* an asset adjusted to (13, 24) has been adjusted again: the second log
\* starts where the first ended
C19_Witness ==
    /\ call.op = "adjust"
    /\ call.status = 200
    /\ Len(adjustments) = 2
    /\ adjustments[1].to_x.m = 13
    /\ adjustments[2].from_x.m = 13
    /\ adjustments[2].to_x.m = 10
    /\ \E a \in db.assets : a.is_adjusted /\ a.adjusted_x.m = 10 /\ a.adjusted_y.m = 20

\* x or y of the adjust request is missing or no finite number
BadAdjust(payload) ==
    \E f \in {"x", "y"} : f \notin DOMAIN payload \/ BadNumber(payload[f])

\* C20: a calibration call that carries a non-finite or non-numeric number or
\* an unrecognized coord_unit fails with InvalidInput and changes no field
\* of the project, the valid fields of the same call included; an adjust
\* whose x or y is missing, non-numeric, NaN or infinite fails the same way,
\* leaves the asset unchanged and appends no AdjustmentLog.
C20_InvalidInputMutatesNothing ==
    [][/\ (call'.op = "calibrate" /\ BadCalibration(call'.payload))
            => (call'.status = 400 /\ calib' = calib)
       /\ (call'.op = "adjust" /\ BadAdjust(call'.payload))
            => (call'.status = 400 /\ db' = db /\ adjustments' = adjustments)]_vars

\* a call with an unrecognized coord_unit and a valid origin_x has been
\* rejected, on a project whose origin is still the default and whose unit
\* an earlier call had set, after an accepted adjustment
C20_Witness ==
    /\ call.op = "calibrate"
    /\ call.status = 400
    /\ call.payload = [coord_unit |-> "invalid", origin_x |-> JsonNumber(100, 0)]
    /\ calib.origin_x = Normalize(0, 0)
    /\ calib.coord_unit = "degrees"
    /\ Len(adjustments) = 1

(***************************************************************************)
(* C21: the order of the checks of a row.                                  *)
(***************************************************************************)
\* the cell of a row under the column of a role, << >> when the row is too
\* short to have one
CellOrNone(c, cells, role) ==
    LET i == CHOOSE k \in 1..Len(HeaderOf(c)) : HeaderOf(c)[k] = MappingOf(c)[role]
    IN  IF i <= Len(cells) THEN cells[i] ELSE << >>

\* the cell is empty or holds white space only
Blank(cell) == \A i \in 1..Len(cell) : cell[i] \in {" ", "\t", "\n", "\r"}

\* the first check the row fails, "" when it passes them all
FirstFailure(c, cells) ==
    IF Blank(CellOrNone(c, cells, "asset_id")) THEN "Missing asset_id"
    ELSE IF Blank(CellOrNone(c, cells, "asset_type")) THEN "Missing asset_type"
    ELSE IF \/ float(CellOrNone(c, cells, "x")) = FloatValueError
            \/ float(CellOrNone(c, cells, "y")) = FloatValueError
    THEN "Invalid coordinates"
    ELSE ""

\* C21 as stated: the checks of a row run in the order asset id, asset type,
\* coordinates and stop at the first failure: a row that fails one or several
\* of them adds exactly one entry to errors, which names the first failing
\* check; an asset id or type of white space only counts as missing.
C21_AsStated ==
    [][\A p \in Procs :
          IsRowStep(p) =>
              LET st == imp[p]
                  first == FirstFailure(st.call, NextCells(p))
              IN  first # "" =>
                      imp'[p].results.errors
                          = Append(st.results.errors, [row |-> st.done + 2, msg |-> first])]_vars

\* the same for the rows that have a cell for every column of the header
C21_WholeRows ==
    [][\A p \in Procs :
          (IsRowStep(p) /\ WholeRow(imp[p].call, NextCells(p))) =>
              LET st == imp[p]
                  first == FirstFailure(st.call, NextCells(p))
              IN  first # "" =>
                      imp'[p].results.errors
                          = Append(st.results.errors, [row |-> st.done + 2, msg |-> first])]_vars

(***************************************************************************)
(* C22: unexpected failures of a row.                                      *)
(***************************************************************************)
\* the errors of a result that none of the three checks of the row produced
UnexpectedErrors(results) ==
    {i \in 1..Len(results.errors) :
        results.errors[i].msg
            \notin {"Missing asset_id", "Missing asset_type", "Invalid coordinates"}}

\* C22 as stated: an unexpected failure while a row is processed (an absent
\* cell, an error of the store) is recorded in errors against the number of
\* that row and does not end the import: the call returns its results, every
\* row of the file has been processed, and the batch is committed.
C22_AsStated ==
    \A i \in 1..Len(log) :
        LET e == log[i]
            data == DataLines(e.call.lines)
        IN  UnexpectedErrors(e.results) # {} =>
                /\ Returned(e)
                /\ Len(e.results.errors) + Len(e.results.assets) = Len(data)
                /\ \A k \in UnexpectedErrors(e.results) :
                      e.results.errors[k].row \in 2..(Len(data) + 1)
                /\ Cardinality(BatchesOf(e)) = 1

(***************************************************************************)
(* C23: the assets list of the result.                                     *)
(***************************************************************************)
\* the position in the file of the k-th valid data row of a call
NthValid(c, k) ==
    CHOOSE i \in ValidRowsOf(c) : Cardinality({j \in ValidRowsOf(c) : j <= i}) = k

\* the asset id a valid data row carries
IdOfRow(c, i) == Strip(CellOf(c, DataLines(c.lines)[i], "asset_id"))

\* the entry the claim expects for the valid row at position i of the file
\* of a logged call: created when the project did not hold the id before the
\* call and no earlier valid row of the file carries it
ExpectedEntry(e, i) ==
    LET c == e.call
        cells == DataLines(c.lines)[i]
    IN  [asset_id |-> IdOfRow(c, i),
         created |-> /\ IdOfRow(c, i) \notin e.ids_before
                     /\ \A j \in ValidRowsOf(c) : j < i => IdOfRow(c, j) # IdOfRow(c, i),
         x |-> float(Strip(CellOf(c, cells, "x"))),
         y |-> float(Strip(CellOf(c, cells, "y")))]

\* C23: the assets list of every returned import holds exactly one entry
\* {asset_id, created, x, y} for each row that passed the checks, in the order
\* of the file; created is true exactly for a row whose asset id the project
\* did not hold and that no earlier row of the file carried, so every repeat
\* of an id in the file has created false.
C23_AssetsList ==
    \A n \in 1..Len(log) :
        LET e == log[n]
        IN  Returned(e) =>
               /\ Len(e.results.assets) = ValidCount(e.call)
               /\ \A k \in 1..Len(e.results.assets) :
                     e.results.assets[k] = ExpectedEntry(e, NthValid(e.call, k))

\* an import of A1, a row without asset id, A2 and A1 again has returned three
\* entries: A1 created, A2 created, A1 updated with the coordinates of its row
C23_Witness ==
    \E n \in 1..Len(log) :
        LET e == log[n]
        IN  /\ Returned(e)
            /\ DataLines(e.call.lines) = <<Row_A1, Row_NoId, Row_A2, Row_A1b>>
            /\ Len(e.results.assets) = 3
            /\ e.results.assets[1].created
            /\ e.results.assets[2].created
            /\ ~e.results.assets[3].created
            /\ e.results.assets[3].asset_id = e.results.assets[1].asset_id
            /\ e.results.assets[3].x # e.results.assets[1].x

(***************************************************************************)
(* C24: the accounting of an import.                                       *)
(***************************************************************************)
\* created + updated + len(errors) of a result
Counted(results) == results.created + results.updated + Len(results.errors)

AssetsIn(b) == {a \in db.assets : a.import_batch = b.pk}

\* the returned imports of the log that upserted the asset
UpsertedBy(a) ==
    {i \in 1..Len(log) :
        /\ Returned(log[i])
        /\ log[i].call.project = a.project
        /\ \E k \in 1..Len(log[i].results.assets) :
              log[i].results.assets[k].asset_id = a.asset_id}

\* C25: after every sequence of committed imports, no batch holds more assets
\* than its asset_count; every asset is in the batch of the last import that
\* upserted it, so a re-import moves it to the new batch; and the batch of
\* every returned import keeps the asset_count and the filename it was
\* committed with, whatever later imports take from it.
C25_BatchCounts ==
    /\ \A b \in db.batches : Cardinality(AssetsIn(b)) <= b.asset_count
    /\ \A a \in db.assets :
          /\ UpsertedBy(a) # {}
          /\ \A i \in UpsertedBy(a) :
                (\A j \in UpsertedBy(a) : j <= i) => a.import_batch = log[i].batch
    /\ \A i \in 1..Len(log) :
          Returned(log[i]) =>
             \E b \in db.batches :
                 /\ b.pk = log[i].batch
                 /\ b.project = log[i].call.project
                 /\ b.asset_count = log[i].results.created + log[i].results.updated
                 /\ b.filename = batch_filename_of(log[i].call.filename,
                                                   log[i].call.file_name)

\* a first import created two assets, a second import re-imported one of
\* them: the first batch still has asset_count 2 and holds one asset, the
\* second batch holds the other
C25_Witness ==
    \E b1, b2 \in db.batches :
        /\ b1.pk < b2.pk
        /\ b1.asset_count = 2
        /\ Cardinality(AssetsIn(b1)) = 1
        /\ b2.asset_count = 1
        /\ Cardinality(AssetsIn(b2)) = 1
        /\ Len(log) = 2
        /\ log[2].results.updated = 1

(***************************************************************************)
(* C26: a re-import keeps the adjustment of an asset.                      *)
(***************************************************************************)
\* the adjustment state of the two rows is the same
SameAdjustment(a, b) ==
    /\ b.adjusted_x = a.adjusted_x
    /\ b.adjusted_y = a.adjusted_y
    /\ b.is_adjusted = a.is_adjusted

\* C26: the upsert of a valid row whose asset id the project holds writes the
\* coordinates of the row to original_x and original_y and leaves adjusted_x,
\* adjusted_y and is_adjusted as they were, so the current position of an
\* adjusted asset stays at its adjusted coordinates; and no step of an import,
\* its commit included, changes the adjustment state of a committed asset.
C26_ReimportKeepsAdjustment ==
    [][/\ \A p \in Procs :
             IsRowStep(p) =>
                LET c == imp[p].call
                    cells == NextCells(p)
                    held == {a \in ViewOf(p).assets :
                                /\ a.project = imp[p].project
                                /\ a.asset_id = Strip(CellOf(c, cells, "asset_id"))}
                IN  (ValidRow(c, cells) /\ held # {}) =>
                       \A old \in held :
                           \E new \in imp'[p].tx.assets :
                               /\ new.pk = old.pk
                               /\ new.original_x = float(CellOf(c, cells, "x"))
                               /\ new.original_y = float(CellOf(c, cells, "y"))
                               /\ SameAdjustment(old, new)
                               /\ old.is_adjusted =>
                                     /\ current_x(new) = old.adjusted_x
                                     /\ current_y(new) = old.adjusted_y
       /\ adjustments' = adjustments =>
             \A a \in db.assets : \A b \in db'.assets :
                 b.pk = a.pk => SameAdjustment(a, b)]_vars

\* asset A1 was imported at (1, 2), adjusted to (13, 24) and imported again
\* from a row with the coordinates (2.5, 2.0): the committed asset has the new
\* original coordinates and is still at its adjusted position
C26_Witness ==
    /\ Len(log) = 2
    /\ Len(adjustments) = 1
    /\ adjustments[1].from_x = float(<<"1">>)
    /\ \E a \in db.assets :
          /\ a.pk = adjustments[1].asset
          /\ a.is_adjusted
          /\ a.original_x = float(<<"2", ".", "5">>)
          /\ a.original_y = float(<<"2", ".", "0">>)
          /\ current_x(a) = Normalize(13, 0)
          /\ current_y(a) = Normalize(24, 0)
          /\ a.import_batch = log[2].batch

(***************************************************************************)
(* C27: the MIME check of PDFFileValidator.                                *)
(***************************************************************************)
\* C27 as stated: with python-magic installed, a file within the size limit,
\* named *.pdf and starting with %PDF- is rejected with ValidationError when
\* magic.from_buffer reports a type other than application/pdf, and accepted
\* on the header check alone when magic.from_buffer itself raises.
C27_AsStated ==
    (/\ gate.op = "PDFFileValidator"
     /\ gate.HAS_MAGIC
     /\ gate.file.size <= LimitOf(PDF_max_size)
     /\ NamedPdf(gate.file.name)
     /\ StartsPdf(gate.file.header)) =>
        /\ gate.file.mime \notin (PDF_allowed_mime_types \cup {MagicRaises}) =>
              gate.answer = "ValidationError"
        /\ gate.file.mime = MagicRaises => gate.answer = "ok"

(***************************************************************************)
(* C28: a file without a header line.                                      *)
(***************************************************************************)
\* C28 as stated: a call without a fixed asset type on a file with no line at
\* all is rejected like a file whose header lacks the required columns: it
\* raises ValueError naming the four required roles, and leaves the store as
\* it was.
C28_AsStated ==
    [][\A p \in Procs :
          (/\ IsCallStep(p)
           /\ imp'[p].call.fixed_asset_type = NoneCell
           /\ imp'[p].call.lines = << >>)
          => (/\ imp'[p].pc = "done"
              /\ imp'[p].raised = "ValueError"
              /\ Len(imp'[p].missing) = Cardinality(RequiredRoles)
              /\ imp'[p].tx = NoTx
              /\ db' = db
              /\ pks' = pks)]_vars

\* what holds of every call on a file with no line: it ends at the header
\* check with an exception (ValueError only when the mapping gives every
\* required role the empty column name), and the store is left as it was
C28_EmptyFileRaises ==
    [][\A p \in Procs :
          (IsCallStep(p) /\ imp'[p].call.lines = << >>)
          => (/\ imp'[p].pc = "done"
              /\ imp'[p].raised \in {"ValueError", "TypeError"}
              /\ imp'[p].tx = NoTx
              /\ db' = db
              /\ pks' = pks)]_vars

(***************************************************************************)
(* C29: the seeding of the default asset types.                            *)
(***************************************************************************)
\* the step runs seed_asset_types, or remove_asset_types
IsSeedStep ==
    /\ call'.op = "seed_asset_types"
    /\ Len(MigrationsRun') = Len(MigrationsRun) + 1

IsRemoveStep ==
    /\ call'.op = "remove_asset_types"
    /\ Len(MigrationsRun') = Len(MigrationsRun) + 1

\* the rows of a table that have the name
Named(types, name) == {t \in types : t.name = name}

\* C29: after seed_asset_types the table holds exactly one AssetType of each
\* of the names TN Intersection, VSL and CCTV; every row that was there
\* before is there unchanged, with its icon_shape, color and size, and every
\* row added has one of the three names and its default; seeding a seeded
\* table changes nothing; and when none of the three names was in the table,
\* seed_asset_types followed by remove_asset_types leaves the table as it
\* was before the seeding.
C29_SeedIdempotent ==
    [][/\ IsSeedStep =>
             /\ \A i \in 1..Len(SeedDefaults) :
                   Cardinality(Named(db'.types, SeedDefaults[i].name)) = 1
             /\ db.types \subseteq db'.types
             /\ \A t \in db'.types \ db.types :
                   \E i \in 1..Len(SeedDefaults) :
                       /\ Named(db.types, SeedDefaults[i].name) = {}
                       /\ [name |-> t.name, icon_shape |-> t.icon_shape,
                           color |-> t.color, size |-> t.size] = SeedDefaults[i]
             /\ call.op = "seed_asset_types" => db'.types = db.types
       /\ (/\ IsRemoveStep
           /\ call.op = "seed_asset_types"
           /\ \A name \in SeedNames : Named(call.before, name) = {})
          => db'.types = call.before]_vars

\* on a database that held the types vsl and Valve only, the migration was
\* applied, reverted, and applied twice again: the table holds the two rows
\* and three new rows of the three names
C29_Witness ==
    /\ call.op = "seed_asset_types"
    /\ call.ops = <<"seed_asset_types", "remove_asset_types",
                    "seed_asset_types", "seed_asset_types">>
    /\ Cardinality(db.types) = 5
    /\ call.before = db.types
    /\ \A t \in ExistingTypes : t.pk \in {4, 5} <=> t \in db.types
    /\ pks.type = Cardinality(ExistingTypes) + 2 * Len(SeedDefaults) + 1

====
